---- MODULE Spec2Model ----
(***************************************************************************)
(* DriftOS embedding server (embedding-server/server.py with               *)
(* nlp_analysis.py and preprocessing.py).                                  *)
(*                                                                         *)
(* One HTTP request is drawn in Init; the handler of its endpoint is one   *)
(* action that computes the whole response.  The lifespan of the           *)
(* application (startup loads the encoder, shutdown resets it) interleaves *)
(* with the handler.  encoder_calls is the list of the text lists handed   *)
(* to model.encode, nlp_calls the list of the cleaned texts handed to the  *)
(* analyzer nlp of preprocessing.py.                                       *)
(*                                                                         *)
(* Python floats are modelled as exact rationals [n, d] in lowest terms    *)
(* with d > 0, so that floors, multipliers and the cap compose exactly.    *)
(***************************************************************************)
EXTENDS Integers, Sequences, FiniteSets, TLC

VARIABLES model, phase, request, response, encoder_calls, requests, responses, nlp_calls

vars == <<model, phase, request, response, encoder_calls, requests, responses, nlp_calls>>

----------------------------------------------------------------------------
(* Rational arithmetic standing for Python float arithmetic.               *)

Abs(x) == IF x < 0 THEN -x ELSE x

RECURSIVE Gcd(_, _)
Gcd(a, b) == IF b = 0 THEN a ELSE Gcd(b, a % b)

\* The rational n/d (d # 0) in lowest terms with a positive denominator.
Rat(n, d) ==
    LET g == Gcd(Abs(n), Abs(d))
        s == IF d < 0 THEN -1 ELSE 1
    IN  [n |-> (s * n) \div g, d |-> (s * d) \div g]

RZero == Rat(0, 1)
ROne == Rat(1, 1)

RMul(a, b) == Rat(a.n * b.n, a.d * b.d)
RAdd(a, b) == Rat(a.n * b.d + b.n * a.d, a.d * b.d)
RSub(a, b) == Rat(a.n * b.d - b.n * a.d, a.d * b.d)
\* a / b for b # 0.
RDiv(a, b) == Rat(a.n * b.d, a.d * b.n)
RLt(a, b) == a.n * b.d < b.n * a.d
RLe(a, b) == a.n * b.d <= b.n * a.d
RMax(a, b) == IF RLt(a, b) THEN b ELSE a
RMin(a, b) == IF RLt(b, a) THEN b ELSE a

----------------------------------------------------------------------------
(* Sequence helpers.                                                       *)

Range(s) == {s[i] : i \in 1..Len(s)}

RECURSIVE Flatten(_)
Flatten(ss) == IF ss = <<>> THEN <<>> ELSE Head(ss) \o Flatten(Tail(ss))

RECURSIVE SelectSeqBy(_, _)
\* The subsequence of s at the positions i with keep[i].
SelectSeqBy(s, keep) ==
    IF s = <<>> THEN <<>>
    ELSE (IF Head(keep) THEN <<Head(s)>> ELSE <<>>)
         \o SelectSeqBy(Tail(s), Tail(keep))

----------------------------------------------------------------------------
(* The analyzer capability (spaCy pipeline nlp_full): a parsed document is *)
(* a sequence of sentences; a sentence has tokens, named-entity spans and  *)
(* noun-chunk spans.  A token carries the attributes the code reads:       *)
(* text, lower (text.lower()), lemma (lemma_.lower(), the only form the    *)
(* code reads), pos (pos_), tag (tag_),                                    *)
(* dep (dep_), head (index of its head in the sentence, itself for the     *)
(* root), stop (is_stop) and ws (followed by whitespace in the raw text).  *)

Tok(text, lower, lemma, pos, tag, dep, head, stop, ws) ==
    [text |-> text, lower |-> lower, lemma |-> lemma, pos |-> pos, tag |-> tag,
     dep |-> dep, head |-> head, stop |-> stop, ws |-> ws]

Span(first, last, label) == [first |-> first, last |-> last, label |-> label]

Period(head) == Tok(".", ".", ".", "PUNCT", ".", "punct", head, FALSE, TRUE)
QMark(head) == Tok("?", "?", "?", "PUNCT", ".", "punct", head, FALSE, TRUE)

\* The sentences requests are built from, as the analyzer parses them.
SentenceCorpus ==
    [ yes |->       \* "Yes."
        [tokens |-> << Tok("Yes", "yes", "yes", "INTJ", "UH", "ROOT", 1, FALSE, FALSE),
                       Period(1) >>,
         ents |-> <<>>, chunks |-> <<>>],
      cool |->      \* "That's cool."
        [tokens |-> << Tok("That", "that", "that", "PRON", "DT", "nsubj", 2, TRUE, FALSE),
                       Tok("'s", "'s", "be", "AUX", "VBZ", "ROOT", 2, TRUE, TRUE),
                       Tok("cool", "cool", "cool", "ADJ", "JJ", "acomp", 2, FALSE, FALSE),
                       Period(2) >>,
         ents |-> <<>>, chunks |-> << Span(1, 1, "NP") >>],
      aside |->     \* "Anyway."
        [tokens |-> << Tok("Anyway", "anyway", "anyway", "ADV", "RB", "ROOT", 1, TRUE, FALSE),
                       Period(1) >>,
         ents |-> <<>>, chunks |-> <<>>],
      anyway |->    \* "Anyway, tell me about quantum computing."
        [tokens |-> << Tok("Anyway", "anyway", "anyway", "ADV", "RB", "advmod", 3, TRUE, FALSE),
                       Tok(",", ",", ",", "PUNCT", ",", "punct", 3, FALSE, TRUE),
                       Tok("tell", "tell", "tell", "VERB", "VB", "ROOT", 3, FALSE, TRUE),
                       Tok("me", "me", "i", "PRON", "PRP", "dobj", 3, TRUE, TRUE),
                       Tok("about", "about", "about", "ADP", "IN", "prep", 3, TRUE, TRUE),
                       Tok("quantum", "quantum", "quantum", "NOUN", "NN", "compound", 7, FALSE, TRUE),
                       Tok("computing", "computing", "computing", "NOUN", "NN", "pobj", 5, FALSE, FALSE),
                       Period(3) >>,
         ents |-> <<>>, chunks |-> << Span(4, 4, "NP"), Span(6, 7, "NP") >>],
      prefer |->    \* "I prefer black holes to Donald Trump "
        [tokens |-> << Tok("I", "i", "i", "PRON", "PRP", "nsubj", 2, TRUE, TRUE),
                       Tok("prefer", "prefer", "prefer", "VERB", "VBP", "ROOT", 2, FALSE, TRUE),
                       Tok("black", "black", "black", "ADJ", "JJ", "amod", 4, FALSE, TRUE),
                       Tok("holes", "holes", "hole", "NOUN", "NNS", "dobj", 2, FALSE, TRUE),
                       Tok("to", "to", "to", "ADP", "IN", "prep", 2, TRUE, TRUE),
                       Tok("Donald", "donald", "donald", "PROPN", "NNP", "compound", 7, FALSE, TRUE),
                       Tok("Trump", "trump", "trump", "PROPN", "NNP", "pobj", 5, FALSE, TRUE) >>,
         ents |-> << Span(6, 7, "PERSON") >>,
         chunks |-> << Span(1, 1, "NP"), Span(3, 4, "NP"), Span(6, 7, "NP") >>],
      howbig |->    \* "How big is the kitchen?"
        [tokens |-> << Tok("How", "how", "how", "SCONJ", "WRB", "advmod", 2, TRUE, TRUE),
                       Tok("big", "big", "big", "ADJ", "JJ", "acomp", 3, FALSE, TRUE),
                       Tok("is", "is", "be", "AUX", "VBZ", "ROOT", 3, TRUE, TRUE),
                       Tok("the", "the", "the", "DET", "DT", "det", 5, TRUE, TRUE),
                       Tok("kitchen", "kitchen", "kitchen", "NOUN", "NN", "nsubj", 3, FALSE, FALSE),
                       QMark(3) >>,
         ents |-> <<>>, chunks |-> << Span(4, 5, "NP") >>],
      works |->     \* "Thanks, it works now "
        [tokens |-> << Tok("Thanks", "thanks", "thanks", "INTJ", "UH", "intj", 4, FALSE, FALSE),
                       Tok(",", ",", ",", "PUNCT", ",", "punct", 4, FALSE, TRUE),
                       Tok("it", "it", "it", "PRON", "PRP", "nsubj", 4, TRUE, TRUE),
                       Tok("works", "works", "work", "VERB", "VBZ", "ROOT", 4, FALSE, TRUE),
                       Tok("now", "now", "now", "ADV", "RB", "advmod", 4, TRUE, TRUE) >>,
         ents |-> <<>>, chunks |-> << Span(3, 3, "NP") >>],
      paris |->     \* "That reminds me of Paris and Obama "
        [tokens |-> << Tok("That", "that", "that", "PRON", "DT", "nsubj", 2, TRUE, TRUE),
                       Tok("reminds", "reminds", "remind", "VERB", "VBZ", "ROOT", 2, FALSE, TRUE),
                       Tok("me", "me", "i", "PRON", "PRP", "dobj", 2, TRUE, TRUE),
                       Tok("of", "of", "of", "ADP", "IN", "prep", 2, TRUE, TRUE),
                       Tok("Paris", "paris", "paris", "PROPN", "NNP", "pobj", 4, FALSE, TRUE),
                       Tok("and", "and", "and", "CCONJ", "CC", "cc", 5, TRUE, TRUE),
                       Tok("Obama", "obama", "obama", "PROPN", "NNP", "conj", 5, FALSE, TRUE) >>,
         ents |-> << Span(5, 5, "GPE"), Span(7, 7, "PERSON") >>,
         chunks |-> << Span(1, 1, "NP"), Span(3, 3, "NP"), Span(5, 5, "NP"), Span(7, 7, "NP") >>],
      why |->       \* "Why not?"
        [tokens |-> << Tok("Why", "why", "why", "SCONJ", "WRB", "advmod", 1, TRUE, TRUE),
                       Tok("not", "not", "not", "PART", "RB", "ROOT", 1, TRUE, FALSE),
                       QMark(2) >>,
         ents |-> <<>>, chunks |-> <<>>],
      renovating |-> \* "We're renovating the kitchen."
        [tokens |-> << Tok("We", "we", "we", "PRON", "PRP", "nsubj", 3, TRUE, FALSE),
                       Tok("'re", "'re", "be", "AUX", "VBP", "aux", 3, TRUE, TRUE),
                       Tok("renovating", "renovating", "renovate", "VERB", "VBG", "ROOT", 3, FALSE, TRUE),
                       Tok("the", "the", "the", "DET", "DT", "det", 5, TRUE, TRUE),
                       Tok("kitchen", "kitchen", "kitchen", "NOUN", "NN", "dobj", 3, FALSE, FALSE),
                       Period(3) >> ,
         ents |-> <<>>, chunks |-> << Span(1, 1, "NP"), Span(4, 5, "NP") >>],
      car |->       \* "my car, it's making noise "
        [tokens |-> << Tok("my", "my", "my", "PRON", "PRP$", "poss", 2, TRUE, TRUE),
                       Tok("car", "car", "car", "NOUN", "NN", "npadvmod", 6, FALSE, FALSE),
                       Tok(",", ",", ",", "PUNCT", ",", "punct", 6, FALSE, TRUE),
                       Tok("it", "it", "it", "PRON", "PRP", "nsubj", 6, TRUE, FALSE),
                       Tok("'s", "'s", "be", "AUX", "VBZ", "aux", 6, TRUE, TRUE),
                       Tok("making", "making", "make", "VERB", "VBG", "ROOT", 6, FALSE, TRUE),
                       Tok("noise", "noise", "noise", "NOUN", "NN", "dobj", 6, FALSE, TRUE) >>,
         ents |-> <<>>,
         chunks |-> << Span(1, 2, "NP"), Span(4, 4, "NP"), Span(7, 7, "NP") >>],
      help |->      \* "Can you please help me understand how to renovate my kitchen?"
        [tokens |-> << Tok("Can", "can", "can", "AUX", "MD", "aux", 4, TRUE, TRUE),
                       Tok("you", "you", "you", "PRON", "PRP", "nsubj", 4, TRUE, TRUE),
                       Tok("please", "please", "please", "INTJ", "UH", "intj", 4, TRUE, TRUE),
                       Tok("help", "help", "help", "VERB", "VB", "ROOT", 4, FALSE, TRUE),
                       Tok("me", "me", "i", "PRON", "PRP", "nsubj", 6, TRUE, TRUE),
                       Tok("understand", "understand", "understand", "VERB", "VB", "ccomp", 4, FALSE, TRUE),
                       Tok("how", "how", "how", "SCONJ", "WRB", "advmod", 9, TRUE, TRUE),
                       Tok("to", "to", "to", "PART", "TO", "aux", 9, TRUE, TRUE),
                       Tok("renovate", "renovate", "renovate", "VERB", "VB", "xcomp", 6, FALSE, TRUE),
                       Tok("my", "my", "my", "PRON", "PRP$", "poss", 11, TRUE, TRUE),
                       Tok("kitchen", "kitchen", "kitchen", "NOUN", "NN", "dobj", 9, FALSE, FALSE),
                       QMark(4) >>,
         ents |-> <<>>,
         chunks |-> << Span(2, 2, "NP"), Span(5, 5, "NP"), Span(10, 11, "NP") >>] ]

----------------------------------------------------------------------------
(* A message text is the sequence of the names of its sentences; nlp_full  *)
(* maps it to the parsed document.                                         *)

Shift(span, k) == [span EXCEPT !.first = @ + k, !.last = @ + k]

ShiftTok(tok, k) == [tok EXCEPT !.head = @ + k]

\* sent.as_doc(): the sentence as a document of its own.
SentDoc(name) == SentenceCorpus[name]

\* The document of a first sentence followed by the document rest, whose
\* indices move by the number of tokens of the first sentence.
ConcatDocs(first, rest) ==
    [tokens |-> first.tokens
                \o [i \in 1..Len(rest.tokens) |->
                        ShiftTok(rest.tokens[i], Len(first.tokens))],
     ents |-> first.ents
              \o [i \in 1..Len(rest.ents) |-> Shift(rest.ents[i], Len(first.tokens))],
     chunks |-> first.chunks
                \o [i \in 1..Len(rest.chunks) |->
                        Shift(rest.chunks[i], Len(first.tokens))]]

RECURSIVE nlp_full(_)
\* The whole parsed document: tokens, doc.ents and doc.noun_chunks of all
\* sentences in order, with indices relative to the document.
nlp_full(text) ==
    IF text = <<>> THEN [tokens |-> <<>>, ents |-> <<>>, chunks |-> <<>>]
    ELSE ConcatDocs(SentDoc(Head(text)), nlp_full(Tail(text)))

\* The raw text as its token sequence (text with the ws flags).
RawTokens(text) == nlp_full(text).tokens

RECURSIVE JoinRaw(_)
JoinRaw(tokens) ==
    IF tokens = <<>> THEN ""
    ELSE Head(tokens).text \o (IF Head(tokens).ws THEN " " ELSE "") \o JoinRaw(Tail(tokens))

\* The raw text as the string the request carries.
RawText(text) == JoinRaw(RawTokens(text))

RECURSIVE SpanLower(_, _, _)
\* span.text.lower() for the tokens first..last.
SpanLower(tokens, first, last) ==
    IF first = last THEN tokens[first].lower
    ELSE tokens[first].lower \o (IF tokens[first].ws THEN " " ELSE "")
         \o SpanLower(tokens, first + 1, last)

RECURSIVE SplitTokens(_, _)
\* str.split(): the maximal runs of tokens not separated by whitespace.
SplitTokens(tokens, word) ==
    IF tokens = <<>> THEN (IF word = <<>> THEN <<>> ELSE <<word>>)
    ELSE IF Head(tokens).ws
         THEN <<Append(word, Head(tokens))>> \o SplitTokens(Tail(tokens), <<>>)
         ELSE SplitTokens(Tail(tokens), Append(word, Head(tokens)))

\* The characters of strip('.,!?'), each a token of its own in the corpus.
StripChars == {".", ",", "!", "?"}

RECURSIVE LStrip(_)
LStrip(word) ==
    IF word # <<>> /\ Head(word).lower \in StripChars THEN LStrip(Tail(word)) ELSE word

RECURSIVE RStrip(_)
RStrip(word) ==
    IF word # <<>> /\ word[Len(word)].lower \in StripChars
    THEN RStrip(SubSeq(word, 1, Len(word) - 1)) ELSE word

RECURSIVE JoinLower(_)
JoinLower(word) == IF word = <<>> THEN "" ELSE Head(word).lower \o JoinLower(Tail(word))

\* [w.lower().strip('.,!?') for w in request.current.split()]
Words(text) ==
    LET ws == SplitTokens(RawTokens(text), <<>>)
    IN  [i \in 1..Len(ws) |-> JoinLower(RStrip(LStrip(ws[i])))]

----------------------------------------------------------------------------
(* Regular expressions \b(a|b c|...)\b with re.IGNORECASE: an alternative  *)
(* is the sequence of its words; it matches where the words equal          *)
(* consecutive lowercased tokens separated by one blank (no blank before a *)
(* clitic such as 'm).                                                     *)

Clitics == {"'m"}

PatternSearch(pattern, tokens) ==
    \E p \in pattern :
        \E i \in 1..(Len(tokens) - Len(p) + 1) :
            \A j \in 1..Len(p) :
                /\ tokens[i + j - 1].lower = p[j]
                /\ j < Len(p) => (tokens[i + j - 1].ws = (p[j + 1] \notin Clitics))

PREFERENCE_PATTERNS ==
    { <<"prefer">>, <<"rather">>, <<"instead", "of">>, <<"better", "than">>, <<"over">>,
      <<"compared", "to">>, <<"versus">>, <<"vs">>, <<"vs.">> }

TOPIC_PIVOT_PATTERNS ==
    { <<"back", "to">>, <<"returning", "to">>, <<"going", "back", "to">>, <<"anyway">>,
      <<"speaking", "of">>, <<"on", "another", "note">>, <<"changing", "topic">>,
      <<"different", "subject">>, <<"but", "about">>, <<"so", "about">>, <<"regarding">> }

\* server.py: \b(that'?s?|this|it'?s?|those|these|the same|them|its)\b; the
\* alternatives with an apostrophe begin with a match of the bare word.
ANAPHORIC_PATTERNS ==
    { <<"that">>, <<"thats">>, <<"this">>, <<"it">>, <<"its">>, <<"those">>, <<"these">>,
      <<"the", "same">>, <<"them">> }

IMPLICIT_QUESTION_PATTERNS ==
    { <<"tell", "me">>, <<"explain">>, <<"describe">>, <<"show", "me">>,
      <<"help", "me", "understand">>, <<"i", "wonder">>, <<"i", "'m", "curious">>,
      <<"wondering", "if">>, <<"interested", "to", "know">>, <<"want", "to", "know">>,
      <<"need", "to", "know">>, <<"let", "me", "know">> }

----------------------------------------------------------------------------
(* nlp_analysis.py                                                         *)

None == "<None>"

ENTITY_WEIGHTS ==
    [PERSON |-> Rat(3, 1), ORG |-> Rat(5, 2), GPE |-> Rat(5, 2), LOC |-> Rat(2, 1),
     PRODUCT |-> Rat(2, 1), EVENT |-> Rat(2, 1), WORK_OF_ART |-> Rat(3, 2),
     NORP |-> Rat(3, 2), FAC |-> Rat(3, 2), DATE |-> Rat(1, 2), TIME |-> Rat(1, 2),
     MONEY |-> Rat(1, 2), QUANTITY |-> Rat(3, 10), CARDINAL |-> Rat(1, 5),
     ORDINAL |-> Rat(1, 5)]

DEFAULT_NOUN_WEIGHT == Rat(1, 1)
DEFAULT_PROPN_WEIGHT == Rat(2, 1)

\* A WeightedEntity; its text field is never read and is left out.
WeightedEntity(lemma, entity_type, weight) ==
    [lemma |-> lemma, entity_type |-> entity_type, weight |-> weight]

RECURSIVE SumWeights(_)
SumWeights(entities) ==
    IF entities = <<>> THEN RZero
    ELSE RAdd(Head(entities).weight, SumWeights(Tail(entities)))

\* EntityAnalysis.get_entity_set
get_entity_set(analysis) == {e.lemma : e \in Range(analysis.entities)}

SeenLemmas(entities) == {e.lemma : e \in Range(entities)}

RECURSIVE NerPass(_, _, _)
\* for ent in doc.ents, from the k-th on
NerPass(doc, k, entities) ==
    IF k > Len(doc.ents) THEN entities
    ELSE LET ent == doc.ents[k]
             lemma == SpanLower(doc.tokens, ent.first, ent.last)
             weight == IF ent.label \in DOMAIN ENTITY_WEIGHTS
                       THEN ENTITY_WEIGHTS[ent.label] ELSE Rat(1, 1)
         IN  IF lemma \notin SeenLemmas(entities) /\ Len(lemma) > 2
             THEN NerPass(doc, k + 1, Append(entities, WeightedEntity(lemma, ent.label, weight)))
             ELSE NerPass(doc, k + 1, entities)

RECURSIVE TokenPass_NoSeenCheck(_, _, _)
\* Variant: the token loop does not consult seen_lemmas.
TokenPass_NoSeenCheck(doc, k, entities) ==
    IF k > Len(doc.tokens) THEN entities
    ELSE IF Len(doc.tokens[k].lemma) <= 3 \/ doc.tokens[k].stop
         THEN TokenPass_NoSeenCheck(doc, k + 1, entities)
    ELSE IF doc.tokens[k].pos = "PROPN"
         THEN TokenPass_NoSeenCheck(doc, k + 1,
                  Append(entities,
                         WeightedEntity(doc.tokens[k].lemma, "PROPN", DEFAULT_PROPN_WEIGHT)))
    ELSE IF doc.tokens[k].pos = "NOUN"
         THEN TokenPass_NoSeenCheck(doc, k + 1,
                  Append(entities,
                         WeightedEntity(doc.tokens[k].lemma, "NOUN", DEFAULT_NOUN_WEIGHT)))
    ELSE TokenPass_NoSeenCheck(doc, k + 1, entities)

RECURSIVE TokenPass(_, _, _)
\* for token in doc, from the k-th on
TokenPass(doc, k, entities) ==
    IF k > Len(doc.tokens) THEN entities
    ELSE LET token == doc.tokens[k]
             lemma == token.lemma
         IN  IF lemma \in SeenLemmas(entities) \/ Len(lemma) <= 3 THEN TokenPass(doc, k + 1, entities)
             ELSE IF token.stop THEN TokenPass(doc, k + 1, entities)
             ELSE IF token.pos = "PROPN"
                  THEN TokenPass(doc, k + 1,
                           Append(entities, WeightedEntity(lemma, "PROPN", DEFAULT_PROPN_WEIGHT)))
             ELSE IF token.pos = "NOUN"
                  THEN TokenPass(doc, k + 1,
                           Append(entities, WeightedEntity(lemma, "NOUN", DEFAULT_NOUN_WEIGHT)))
             ELSE TokenPass(doc, k + 1, entities)

RECURSIVE ChunkPass_NoSeenCheck(_, _, _)
\* Variant: the noun-chunk loop does not consult seen_lemmas.
ChunkPass_NoSeenCheck(doc, k, entities) ==
    IF k > Len(doc.chunks) THEN entities
    ELSE IF Len(SpanLower(doc.tokens, doc.chunks[k].first, doc.chunks[k].last)) > 4
         THEN ChunkPass_NoSeenCheck(doc, k + 1,
                  Append(entities,
                         WeightedEntity(
                             SpanLower(doc.tokens, doc.chunks[k].first, doc.chunks[k].last),
                             "NOUN_CHUNK",
                             IF \E i \in doc.chunks[k].first..doc.chunks[k].last :
                                    doc.tokens[i].pos = "PROPN"
                             THEN DEFAULT_PROPN_WEIGHT ELSE DEFAULT_NOUN_WEIGHT)))
    ELSE ChunkPass_NoSeenCheck(doc, k + 1, entities)

RECURSIVE ChunkPass(_, _, _)
\* for chunk in doc.noun_chunks, from the k-th on
ChunkPass(doc, k, entities) ==
    IF k > Len(doc.chunks) THEN entities
    ELSE LET chunk == doc.chunks[k]
             lemma == SpanLower(doc.tokens, chunk.first, chunk.last)
             has_propn == \E i \in chunk.first..chunk.last : doc.tokens[i].pos = "PROPN"
             weight == IF has_propn THEN DEFAULT_PROPN_WEIGHT ELSE DEFAULT_NOUN_WEIGHT
         IN  IF lemma \notin SeenLemmas(entities) /\ Len(lemma) > 4
             THEN ChunkPass(doc, k + 1, Append(entities, WeightedEntity(lemma, "NOUN_CHUNK", weight)))
             ELSE ChunkPass(doc, k + 1, entities)

RECURSIVE HighValue(_)
\* [e.lemma for e in entities if e.weight >= 2.0]
HighValue(entities) ==
    IF entities = <<>> THEN <<>>
    ELSE (IF RLe(Rat(2, 1), Head(entities).weight) THEN <<Head(entities).lemma>> ELSE <<>>)
         \o HighValue(Tail(entities))

\* EntityAnalysis(entities, total_weight, high_value_entities) as it is built from
\* the list of entities.
EntityAnalysis(entities) ==
    [entities |-> entities,
     total_weight |-> SumWeights(entities),
     high_value_entities |-> HighValue(entities)]

extract_weighted_entities(doc) ==
    EntityAnalysis(ChunkPass(doc, 1, TokenPass(doc, 1, NerPass(doc, 1, <<>>))))

has_anaphoric_reference(doc) ==
    LET local_referents == {doc.tokens[i].lemma : i \in {j \in 1..Len(doc.tokens) :
                                doc.tokens[j].pos \in {"NOUN", "PROPN"}}}
        has_plural == \E i \in 1..Len(doc.tokens) : doc.tokens[i].tag \in {"NNS", "NNPS"}
    IN  \E i \in 1..Len(doc.tokens) :
            LET token == doc.tokens[i] IN
            \/ /\ token.lower \in {"this", "that", "these", "those"}
               \* token.i is 0-based
               /\ (i - 1 <= 2 \/ token.dep \in {"nsubj", "nsubjpass"})
               /\ \/ token.dep \in {"nsubj", "nsubjpass", "dobj", "pobj", "attr"}
                  \/ token.pos = "PRON"
            \/ /\ token.lower \in {"it", "its"}
               /\ ~(token.lower = "it" /\ token.dep = "expl")
               /\ local_referents = {}
               /\ token.pos \in {"PRON", "DET"}
            \/ /\ token.lower \in {"they", "them", "their"}
               /\ token.pos \in {"PRON", "DET"}
               /\ ~has_plural

Interrogatives == {"who", "what", "where", "when", "why", "how", "which", "whom", "whose"}

AuxVerbs == {"can", "could", "would", "should", "do", "does", "did",
             "is", "are", "was", "were", "will", "have", "has"}

\* '?' in raw_text
HasQuestionMark(tokens) == \E i \in 1..Len(tokens) : tokens[i].text = "?"

is_question(doc, raw_text) ==
    \/ HasQuestionMark(raw_text)
    \/ /\ Len(doc.tokens) > 0
       /\ doc.tokens[1].lower \in Interrogatives \cup AuxVerbs
    \/ PatternSearch(IMPLICIT_QUESTION_PATTERNS, raw_text)

\* token.children: the tokens whose head is the token, in document order.
Children(doc, i) == {j \in 1..Len(doc.tokens) : j # i /\ doc.tokens[j].head = i}

RECURSIVE Subtree(_, _)
\* token.subtree: the token and its descendants.
Subtree(doc, i) == {i} \cup UNION {Subtree(doc, j) : j \in Children(doc, i)}

Max(S) == CHOOSE x \in S : \A y \in S : y <= x

RECURSIVE JoinTexts(_, _, _)
\* ' '.join(t.text for t in ...) over the tokens of idx from the k-th index up
JoinTexts(doc, idx, k) ==
    IF k > Len(doc.tokens) THEN ""
    ELSE IF k \notin idx THEN JoinTexts(doc, idx, k + 1)
    ELSE IF k = Max(idx) THEN doc.tokens[k].text
    ELSE doc.tokens[k].text \o " " \o JoinTexts(doc, idx, k + 1)

get_noun_phrase(doc, i) == JoinTexts(doc, Subtree(doc, i), 1)

\* The value a loop "for c in cs: if ...: x = f(c)" leaves in x: that of the last
\* c that assigns, or the old value.
LastAssigned(old, cs, f(_)) == IF cs = {} THEN old ELSE f(Max(cs))

RECURSIVE PreferenceLoop(_, _, _, _)
\* for token in doc, from the k-th on, carrying (preferred, rejected)
PreferenceLoop(doc, k, preferred, rejected) ==
    IF k > Len(doc.tokens) THEN <<preferred, rejected>>
    ELSE LET token == doc.tokens[k]
             Phrase(i) == get_noun_phrase(doc, i)
             Pobjs(c) == {g \in Children(doc, c) : doc.tokens[g].dep = "pobj"}
             LastPobj(c) == Phrase(Max(Pobjs(c)))
             isPrefer == token.lower \in {"prefer", "rather"}
             dobjs == {c \in Children(doc, k) : doc.tokens[c].dep = "dobj"}
             tos == {c \in Children(doc, k) :
                        /\ doc.tokens[c].dep # "dobj"
                        /\ doc.tokens[c].dep = "prep" /\ doc.tokens[c].lower = "to"
                        /\ Pobjs(c) # {}}
             p1 == IF isPrefer THEN LastAssigned(preferred, dobjs, Phrase) ELSE preferred
             r1 == IF isPrefer THEN LastAssigned(rejected, tos, LastPobj) ELSE rejected
             isOver == token.lower = "over" /\ token.dep = "prep"
             r2 == IF isOver /\ Pobjs(k) # {} THEN LastPobj(k) ELSE r1
             p2 == IF isOver /\ doc.tokens[token.head].pos \in {"NOUN", "PROPN"}
                   THEN Phrase(token.head) ELSE p1
         IN  PreferenceLoop(doc, k + 1, p2, r2)

\* (has_preference, preferred, rejected)
detect_preference(doc, raw_text) ==
    IF ~PatternSearch(PREFERENCE_PATTERNS, raw_text) THEN <<FALSE, None, None>>
    ELSE <<TRUE>> \o PreferenceLoop(doc, 1, None, None)

\* SentenceAnalysis(...) from the sentence and the result of detect_preference.
SentenceAnalysis(doc, raw_text, pref) ==
    [is_question |-> is_question(doc, raw_text),
     has_anaphoric_ref |-> has_anaphoric_reference(doc),
     has_preference |-> pref[1],
     has_topic_pivot |-> PatternSearch(TOPIC_PIVOT_PATTERNS, raw_text),
     entities |-> extract_weighted_entities(doc),
     preferred_entity |-> pref[2],
     rejected_entity |-> pref[3]]

analyze_sentence(doc, raw_text) ==
    SentenceAnalysis(doc, raw_text, detect_preference(doc, raw_text))

RECURSIVE LastTruthy(_, _)
\* for s in sentence_analyses: if s.x: x = s.x   (None and "" are falsy)
LastTruthy(values, old) ==
    IF values = <<>> THEN old
    ELSE LastTruthy(Tail(values), IF Head(values) \notin {None, ""} THEN Head(values) ELSE old)

\* Variant: an anaphoric reference in any sentence counts.
PivotDetected_AnySentenceAnaphoric(sentence_analyses) ==
    /\ Len(sentence_analyses) > 1 /\ Len(sentence_analyses) >= 2
    /\ \E i \in 1..Len(sentence_analyses) : sentence_analyses[i].has_anaphoric_ref
    /\ Cardinality(
           UNION {get_entity_set(sentence_analyses[i].entities) :
                     i \in 2..Len(sentence_analyses)}
           \ get_entity_set(sentence_analyses[1].entities)) >= 1

\* Compound message with pivot: the first sentence is anaphoric and the rest
\* introduces entities the first does not have.
PivotDetected(sentence_analyses) ==
    /\ Len(sentence_analyses) > 1 /\ Len(sentence_analyses) >= 2
    /\ sentence_analyses[1].has_anaphoric_ref
    /\ Cardinality(
           UNION {get_entity_set(sentence_analyses[i].entities) :
                     i \in 2..Len(sentence_analyses)}
           \ get_entity_set(sentence_analyses[1].entities)) >= 1

\* MessageAnalysis(...) aggregated from the sentence analyses and the entities of
\* the whole document.
MessageAnalysis(sentence_analyses, all_entities) ==
    [sentences |-> sentence_analyses,
     is_question |-> \E i \in 1..Len(sentence_analyses) : sentence_analyses[i].is_question,
     has_anaphoric_ref |->
         \E i \in 1..Len(sentence_analyses) : sentence_analyses[i].has_anaphoric_ref,
     has_preference |->
         \E i \in 1..Len(sentence_analyses) : sentence_analyses[i].has_preference,
     has_topic_pivot |->
         \E i \in 1..Len(sentence_analyses) : sentence_analyses[i].has_topic_pivot,
     all_entities |-> all_entities,
     is_compound |-> Len(sentence_analyses) > 1,
     pivot_detected |-> PivotDetected(sentence_analyses),
     preferred_entity |->
         LastTruthy([i \in 1..Len(sentence_analyses) |->
                        sentence_analyses[i].preferred_entity], None),
     rejected_entity |->
         LastTruthy([i \in 1..Len(sentence_analyses) |->
                        sentence_analyses[i].rejected_entity], None)]

\* for sent in doc.sents: analyze_sentence(sent.as_doc(), sent.text)
SentenceAnalyses(text) ==
    [i \in 1..Len(text) |-> analyze_sentence(SentDoc(text[i]), SentDoc(text[i]).tokens)]

analyze_message(text) ==
    MessageAnalysis(SentenceAnalyses(text), extract_weighted_entities(nlp_full(text)))

\* The entities of the list whose lemma is in the set, in order.
EntitiesIn(entities, lemmas) ==
    SelectSeqBy(entities, [i \in 1..Len(entities) |-> entities[i].lemma \in lemmas])

\* new_entities = current_set - previous_set
NewEntities(current_entities, previous_entities) ==
    get_entity_set(current_entities) \ get_entity_set(previous_entities)

\* Variant: the shared weight is divided by the total weight of the previous message.
calculate_entity_overlap_OverPrevious(current_entities, previous_entities) ==
    LET shared == get_entity_set(current_entities) \cap get_entity_set(previous_entities)
        shared_weight == SumWeights(EntitiesIn(current_entities.entities, shared))
        new_weight ==
            SumWeights(EntitiesIn(current_entities.entities,
                                  NewEntities(current_entities, previous_entities)))
        overlap_score == IF previous_entities.total_weight = RZero THEN RZero
                         ELSE RDiv(shared_weight, previous_entities.total_weight)
    IN  <<overlap_score, shared, new_weight>>

\* (overlap_score, shared_entities, new_entity_weight)
calculate_entity_overlap(current_entities, previous_entities) ==
    LET shared == get_entity_set(current_entities) \cap get_entity_set(previous_entities)
        shared_weight == SumWeights(EntitiesIn(current_entities.entities, shared))
        new_weight ==
            SumWeights(EntitiesIn(current_entities.entities,
                                  NewEntities(current_entities, previous_entities)))
        overlap_score == IF current_entities.total_weight = RZero THEN RZero
                         ELSE RDiv(shared_weight, current_entities.total_weight)
    IN  <<overlap_score, shared, new_weight>>

\* [e for e in entities if e.lemma in new_entities and e.weight >= 2.0]
HighValueNew(entities, new_entities) ==
    SelectSeqBy(entities,
                [i \in 1..Len(entities) |->
                    entities[i].lemma \in new_entities /\ RLe(Rat(2, 1), entities[i].weight)])

\* Variant: the compound-pivot signal is not consulted.
should_suppress_anaphoric_floor_NoPivotDetected(current_analysis, previous_entities) ==
    \/ current_analysis.has_preference
    \/ current_analysis.has_topic_pivot
    \/ RLe(Rat(4, 1),
           SumWeights(EntitiesIn(current_analysis.all_entities.entities,
                                 NewEntities(current_analysis.all_entities, previous_entities))))
    \/ Len(HighValueNew(current_analysis.all_entities.entities,
                        NewEntities(current_analysis.all_entities, previous_entities))) >= 2

should_suppress_anaphoric_floor(current_analysis, previous_entities) ==
    \/ current_analysis.has_preference
    \/ current_analysis.has_topic_pivot
    \/ current_analysis.pivot_detected
    \/ RLe(Rat(4, 1),
           SumWeights(EntitiesIn(current_analysis.all_entities.entities,
                                 NewEntities(current_analysis.all_entities, previous_entities))))
    \/ Len(HighValueNew(current_analysis.all_entities.entities,
                        NewEntities(current_analysis.all_entities, previous_entities))) >= 2

----------------------------------------------------------------------------
(* Messages of the requests                                                *)

\* Longest message, in sentences.
MaxSents == 2

CurrentSentences ==
    {"yes", "cool", "anyway", "prefer", "howbig", "works", "paris", "why", "car", "aside"}

Messages == UNION {[1..n -> CurrentSentences] : n \in 0..MaxSents}

PreviousMessages == { <<>>, <<"howbig">>, <<"paris", "renovating">> }

\* analyze_message on every message a request carries, evaluated once (@@ makes
\* the table an explicit function).
MessageAnalyses ==
    [text \in Messages \cup PreviousMessages |-> analyze_message(text)] @@ << >>

----------------------------------------------------------------------------
(* server.py: the boost engine of /analyze-drift                           *)

QA_BOOST_FACTOR == Rat(13, 10)
RECENCY_BOOST_FACTOR == Rat(16, 10)
ANAPHORIC_BOOST_FACTOR == Rat(15, 10)
ENTITY_OVERLAP_BOOST_FACTOR == Rat(2, 1)
ANAPHORIC_SIMILARITY_FLOOR == Rat(45, 100)
SHORT_RESPONSE_FLOOR == Rat(50, 100)
RESPONSE_PARTICLE_FLOOR == Rat(55, 100)

RESPONSE_PARTICLES ==
    { "yes", "yeah", "yep", "yup", "ya", "aye", "sure", "ok", "okay", "k",
      "absolutely", "definitely", "certainly", "indeed", "right", "correct",
      "agreed", "exactly", "true", "totally", "yea",
      "no", "nope", "nah", "never", "negative",
      "thanks", "thank", "thx", "ty", "cheers", "cool", "nice", "great",
      "awesome", "perfect", "wonderful", "excellent", "good", "fine",
      "maybe", "perhaps", "possibly", "probably", "idk", "dunno",
      "please", "pls", "plz", "go", "continue", "more", "next",
      "well", "so", "anyway", "alright", "hmm", "hm", "oh", "ah", "uh" }

\* The square root of a perfect square (embeddings are drawn with integral norms,
\* so that a cosine is an exact rational).
Sqrt(n) == CHOOSE r \in 0..n : r * r = n

RECURSIVE Dot(_, _)
Dot(a, b) == IF a = <<>> THEN 0 ELSE Head(a) * Head(b) + Dot(Tail(a), Tail(b))

Norm(a) == Sqrt(Dot(a, a))

\* np.dot raises ValueError on vectors of different lengths.
DotRaises(a, b) == Len(a) # Len(b)

cosine_similarity(a, b) ==
    LET dot == Dot(a, b)
        norm_a == Norm(a)
        norm_b == Norm(b)
    IN  IF norm_a = 0 \/ norm_b = 0 THEN RZero
        ELSE Rat(dot, norm_a * norm_b)

\* Variant: the particle rule limited to SHORT_RESPONSE_MAX_WORDS (3) words.
ShortResponseBoost_MaxWords3(b, words, current_analysis) ==
    LET first_word == IF words # <<>> THEN words[1] ELSE ""
        is_response_particle == first_word \in RESPONSE_PARTICLES /\ Len(words) <= 3
    IN  IF is_response_particle
        THEN [boosted |-> RMax(b.boosted, RESPONSE_PARTICLE_FLOOR),
              boosts_applied |-> Append(b.boosts_applied, "response_particle")]
        ELSE IF Len(words) <= 2 /\ ~current_analysis.is_question
        THEN [boosted |-> RMax(b.boosted, SHORT_RESPONSE_FLOOR),
              boosts_applied |-> Append(b.boosts_applied, "ultra_short_response")]
        ELSE b

\* Variant: the ultra-short rule does not look at is_question.
ShortResponseBoost_QuestionsToo(b, words, current_analysis) ==
    LET first_word == IF words # <<>> THEN words[1] ELSE ""
        is_response_particle == first_word \in RESPONSE_PARTICLES /\ Len(words) <= 4
    IN  IF is_response_particle
        THEN [boosted |-> RMax(b.boosted, RESPONSE_PARTICLE_FLOOR),
              boosts_applied |-> Append(b.boosts_applied, "response_particle")]
        ELSE IF Len(words) <= 2
        THEN [boosted |-> RMax(b.boosted, SHORT_RESPONSE_FLOOR),
              boosts_applied |-> Append(b.boosts_applied, "ultra_short_response")]
        ELSE b

\* Boost 0a / 0b: response particle, else ultra-short response.
ShortResponseBoost(b, words, current_analysis) ==
    LET first_word == IF words # <<>> THEN words[1] ELSE ""
        is_response_particle == first_word \in RESPONSE_PARTICLES /\ Len(words) <= 4
    IN  IF is_response_particle
        THEN [boosted |-> RMax(b.boosted, RESPONSE_PARTICLE_FLOOR),
              boosts_applied |-> Append(b.boosts_applied, "response_particle")]
        ELSE IF Len(words) <= 2 /\ ~current_analysis.is_question
        THEN [boosted |-> RMax(b.boosted, SHORT_RESPONSE_FLOOR),
              boosts_applied |-> Append(b.boosts_applied, "ultra_short_response")]
        ELSE b

\* Variant: the Q&A rule does not look at the current message being a question.
QaPairBoost_AnyCurrent(b, words, current_analysis, previous_analysis) ==
    IF previous_analysis.is_question /\ Len(words) <= 10
    THEN [boosted |-> RMul(b.boosted, QA_BOOST_FACTOR),
          boosts_applied |-> Append(b.boosts_applied, "qa_pair")]
    ELSE b

\* Boost 1: Q&A pair.
QaPairBoost(b, words, current_analysis, previous_analysis) ==
    IF previous_analysis.is_question /\ ~current_analysis.is_question /\ Len(words) <= 10
    THEN [boosted |-> RMul(b.boosted, QA_BOOST_FACTOR),
          boosts_applied |-> Append(b.boosts_applied, "qa_pair")]
    ELSE b

\* Variant: the floor replaces the score instead of bounding it from below.
AnaphoricBoost_FloorAssigned(b, current_analysis, previous_entities) ==
    IF current_analysis.has_anaphoric_ref
    THEN IF ~should_suppress_anaphoric_floor(current_analysis, previous_entities)
         THEN [boosted |-> RMul(ANAPHORIC_SIMILARITY_FLOOR, ANAPHORIC_BOOST_FACTOR),
               boosts_applied |-> Append(b.boosts_applied, "anaphoric_ref")]
         ELSE [boosted |-> RMul(b.boosted, ANAPHORIC_BOOST_FACTOR),
               boosts_applied |-> Append(b.boosts_applied, "anaphoric_ref_weak")]
    ELSE b

\* Variant: the suppression test inverted.
AnaphoricBoost_SuppressionInverted(b, current_analysis, previous_entities) ==
    IF current_analysis.has_anaphoric_ref
    THEN IF should_suppress_anaphoric_floor(current_analysis, previous_entities)
         THEN [boosted |-> RMul(RMax(b.boosted, ANAPHORIC_SIMILARITY_FLOOR),
                                ANAPHORIC_BOOST_FACTOR),
               boosts_applied |-> Append(b.boosts_applied, "anaphoric_ref")]
         ELSE [boosted |-> RMul(b.boosted, ANAPHORIC_BOOST_FACTOR),
               boosts_applied |-> Append(b.boosts_applied, "anaphoric_ref_weak")]
    ELSE b

\* Boost 2: anaphoric reference with floor suppression.
AnaphoricBoost(b, current_analysis, previous_entities) ==
    IF current_analysis.has_anaphoric_ref
    THEN IF ~should_suppress_anaphoric_floor(current_analysis, previous_entities)
         THEN [boosted |-> RMul(RMax(b.boosted, ANAPHORIC_SIMILARITY_FLOOR),
                                ANAPHORIC_BOOST_FACTOR),
               boosts_applied |-> Append(b.boosts_applied, "anaphoric_ref")]
         ELSE [boosted |-> RMul(b.boosted, ANAPHORIC_BOOST_FACTOR),
               boosts_applied |-> Append(b.boosts_applied, "anaphoric_ref_weak")]
    ELSE b

\* Boost 3: follow-up question.
QuestionBoost(b, current_analysis) ==
    IF current_analysis.is_question
    THEN [boosted |-> RMul(b.boosted, RECENCY_BOOST_FACTOR),
          boosts_applied |-> Append(b.boosts_applied, "question")]
    ELSE b

\* Variant: the full factor whatever the overlap score.
EntityOverlapBoost_FullFactor(b, has_entity_overlap, overlap_score) ==
    IF has_entity_overlap
    THEN [boosted |-> RMul(b.boosted, ENTITY_OVERLAP_BOOST_FACTOR),
          boosts_applied |-> Append(b.boosts_applied, "entity_overlap")]
    ELSE b

\* Boost 4: weighted entity overlap.
EntityOverlapBoost(b, has_entity_overlap, overlap_score) ==
    IF has_entity_overlap
    THEN LET overlap_boost ==
                 RAdd(ROne, RMul(RSub(ENTITY_OVERLAP_BOOST_FACTOR, ROne),
                                 RMin(overlap_score, ROne)))
         IN  [boosted |-> RMul(b.boosted, overlap_boost),
              boosts_applied |-> Append(b.boosts_applied, "entity_overlap")]
    ELSE b

\* Variant: no cap.
CapBoosted_NoCap(boosted) == boosted

\* Cap at 1.0
CapBoosted(boosted) == RMin(boosted, ROne)

\* boosted / raw_similarity if raw_similarity > 0 else 1.0
BoostMultiplier(boosted, raw_similarity) ==
    IF RLt(RZero, raw_similarity) THEN RDiv(boosted, raw_similarity) ELSE ROne

\* Variant: the follow-up question boost runs before the anaphoric boost.
ApplyBoosts_QuestionBeforeAnaphoric(raw_similarity, words, current_analysis, previous_analysis, has_entity_overlap, overlap_score) ==
    EntityOverlapBoost(
        AnaphoricBoost(
            QuestionBoost(
                QaPairBoost(
                    ShortResponseBoost(
                        [boosted |-> raw_similarity, boosts_applied |-> <<>>],
                        words, current_analysis),
                    words, current_analysis, previous_analysis),
                current_analysis),
            current_analysis, previous_analysis.all_entities),
        has_entity_overlap, overlap_score)

\* The order in which the handler runs the boosts on (boosted, boosts_applied).
ApplyBoosts(raw_similarity, words, current_analysis, previous_analysis, has_entity_overlap, overlap_score) ==
    LET b0 == [boosted |-> raw_similarity, boosts_applied |-> <<>>]
        b1 == ShortResponseBoost(b0, words, current_analysis)
        b2 == QaPairBoost(b1, words, current_analysis, previous_analysis)
        b3 == AnaphoricBoost(b2, current_analysis, previous_analysis.all_entities)
        b4 == QuestionBoost(b3, current_analysis)
    IN  EntityOverlapBoost(b4, has_entity_overlap, overlap_score)

\* EntityOverlap(...): sorted(list(shared_entities)) is the set in canonical order.
EntityOverlap(shared_entities, overlap_score) ==
    [has_overlap |-> Cardinality(shared_entities) > 0,
     overlap_score |-> RMin(overlap_score, ROne),
     shared_entities |-> shared_entities]

\* Variant: no preference return.
DriftPath_NoPreferenceReturn(current_analysis, has_topic_pivot) ==
    IF has_topic_pivot THEN "topic_pivot" ELSE "boost"

\* Variant: the topic-pivot return ignores the pivot phrases.
DriftPath_PivotOnlyFromAnalysis(current_analysis, has_topic_pivot) ==
    IF current_analysis.has_preference THEN "preference"
    ELSE IF current_analysis.pivot_detected THEN "topic_pivot"
    ELSE "boost"

\* Variant: the topic-pivot return tested before the preference return.
DriftPath_PivotFirst(current_analysis, has_topic_pivot) ==
    IF has_topic_pivot THEN "topic_pivot"
    ELSE IF current_analysis.has_preference THEN "preference"
    ELSE "boost"

\* Variant: no topic-pivot return.
DriftPath_NoPivotReturn(current_analysis, has_topic_pivot) ==
    IF current_analysis.has_preference THEN "preference" ELSE "boost"

\* Which return statement of analyze_drift is taken.
DriftPath(current_analysis, has_topic_pivot) ==
    IF current_analysis.has_preference THEN "preference"
    ELSE IF has_topic_pivot THEN "topic_pivot"
    ELSE "boost"

\* AnalyzeMessageResponse(...) as the handler builds it at a return statement.
AnalyzeMessageResponse(current_analysis, previous_analysis, has_topic_pivot, has_preference, preferred_entity, rejected_entity, overlap) ==
    [current_is_question |-> current_analysis.is_question,
     previous_is_question |-> previous_analysis.is_question,
     current_has_anaphoric_ref |-> current_analysis.has_anaphoric_ref,
     has_topic_return_signal |-> has_topic_pivot,
     has_preference |-> has_preference,
     preferred_entity |-> preferred_entity,
     rejected_entity |-> rejected_entity,
     entity_overlap |-> EntityOverlap(overlap[2], overlap[1])]

\* The return statement after the boosts: cap, multiplier, response.
BoostedResponse(raw_similarity, b, analysis) ==
    [status |-> 200,
     raw_similarity |-> raw_similarity,
     boosted_similarity |-> CapBoosted(b.boosted),
     boost_multiplier |-> BoostMultiplier(CapBoosted(b.boosted), raw_similarity),
     boosts_applied |-> b.boosts_applied,
     analysis |-> analysis]

\* The handler from the point where the analyses, the overlap, the pivot signal
\* and the raw similarity are known.
DriftResponse(req, current_analysis, previous_analysis, overlap, has_topic_pivot, raw_similarity) ==
    IF DriftPath(current_analysis, has_topic_pivot) = "preference"
    THEN [status |-> 200,
          raw_similarity |-> raw_similarity,
          boosted_similarity |-> raw_similarity,
          boost_multiplier |-> ROne,
          boosts_applied |-> <<"preference_detected">>,
          analysis |-> AnalyzeMessageResponse(current_analysis, previous_analysis,
                           has_topic_pivot, TRUE, current_analysis.preferred_entity,
                           current_analysis.rejected_entity, overlap)]
    ELSE IF DriftPath(current_analysis, has_topic_pivot) = "topic_pivot"
    THEN [status |-> 200,
          raw_similarity |-> raw_similarity,
          boosted_similarity |-> raw_similarity,
          boost_multiplier |-> ROne,
          boosts_applied |-> <<>>,
          \* has_preference, preferred_entity and rejected_entity keep their defaults
          analysis |-> AnalyzeMessageResponse(current_analysis, previous_analysis,
                           has_topic_pivot, FALSE, None, None, overlap)]
    ELSE BoostedResponse(
             raw_similarity,
             ApplyBoosts(raw_similarity, Words(req.current), current_analysis,
                         previous_analysis, Cardinality(overlap[2]) > 0, overlap[1]),
             AnalyzeMessageResponse(current_analysis, previous_analysis, has_topic_pivot,
                 current_analysis.has_preference, current_analysis.preferred_entity,
                 current_analysis.rejected_entity, overlap))

\* Variant: a zero norm raises (division by zero) instead of giving 0.0.
AnalyzedDrift_ZeroNormRaises(req, current_analysis, previous_analysis) ==
    IF \/ DotRaises(req.current_embedding, req.branch_centroid)
       \/ Norm(req.current_embedding) = 0
       \/ Norm(req.branch_centroid) = 0
    THEN [status |-> 500]
    ELSE DriftResponse(req, current_analysis, previous_analysis,
             calculate_entity_overlap(current_analysis.all_entities,
                                      previous_analysis.all_entities),
             \/ current_analysis.has_topic_pivot
             \/ PatternSearch(TOPIC_PIVOT_PATTERNS, RawTokens(req.current)),
             cosine_similarity(req.current_embedding, req.branch_centroid))

\* The handler from the point where both messages are analyzed.  np.dot raising
\* inside cosine_similarity leaves the handler with an unhandled exception (500).
AnalyzedDrift(req, current_analysis, previous_analysis) ==
    IF DotRaises(req.current_embedding, req.branch_centroid)
    THEN [status |-> 500]
    ELSE DriftResponse(req, current_analysis, previous_analysis,
             calculate_entity_overlap(current_analysis.all_entities,
                                      previous_analysis.all_entities),
             \/ current_analysis.has_topic_pivot
             \/ PatternSearch(TOPIC_PIVOT_PATTERNS, RawTokens(req.current)),
             cosine_similarity(req.current_embedding, req.branch_centroid))

\* The body of the /analyze-drift handler: the response to a request
\* (nlp_analyze_message(nlp_full(text), text) is read from the table).
analyze_drift(req) ==
    AnalyzedDrift(req, MessageAnalyses[req.current], MessageAnalyses[req.previous])

----------------------------------------------------------------------------
(* preprocessing.py                                                        *)

REMOVE_WORDS ==
    { "a", "an", "the", "this", "that", "these", "those", "some", "any",
      "please", "pls", "plz", "thanks", "thank", "thankyou", "ty", "sorry",
      "just", "really", "very", "quite", "kind", "kinda", "sort", "sortof",
      "actually", "basically", "literally", "so", "much", "um", "uh", "well",
      "like", "ok", "okay", "yeah", "yes", "no", "right",
      "can", "could", "would", "should", "do", "be", "have", "will",
      "wonder", "maybe", "perhaps", "possible", "possibly",
      "get", "go", "come", "let", "make", "take", "give", "need", "want",
      "know", "think", "see", "look", "find", "tell", "say", "ask",
      "i", "me", "my", "mine", "we", "us", "our", "ours",
      "you", "your", "yours", "he", "him", "his", "she", "her", "hers",
      "it", "its", "they", "them", "their", "theirs",
      "-pron-",
      "here", "there", "now", "then", "where", "when", "what", "how", "why", "which",
      "to", "of", "in", "for", "on", "with", "at", "by", "from", "as",
      "and", "or", "but", "if", "because", "while", "although" }

\* re.sub(r"[^\w\s]", " ", text.lower()) on one token: the runs of word characters
\* it leaves (punctuation becomes blanks, a clitic loses its apostrophe).
CleanToken(lower) ==
    CASE lower \in {".", ",", "!", "?"} -> <<>>
      [] lower = "'s" -> <<"s">>
      [] lower = "'re" -> <<"re">>
      [] lower = "'m" -> <<"m">>
      [] lower = "vs." -> <<"vs">>
      [] OTHER -> <<lower>>

\* The cleaning applied to a token sequence.
CleanedTokens(tokens) ==
    Flatten([i \in 1..Len(tokens) |-> CleanToken(tokens[i].lower)])

\* The words of the cleaned text (lowercased, punctuation blanked, whitespace
\* collapsed and stripped).
CleanedWords(text) == CleanedTokens(RawTokens(text))

AllCorpusTokens ==
    UNION {Range(SentenceCorpus[name].tokens) : name \in DOMAIN SentenceCorpus}

\* token.lemma_.lower() as the lemmatizer gives it for a word of the cleaned text.
LemmaOf(word) ==
    IF \E t \in AllCorpusTokens : t.lower = word
    THEN (CHOOSE t \in AllCorpusTokens : t.lower = word).lemma
    ELSE word

RECURSIVE JoinWords(_)
\* " ".join(words)
JoinWords(words) ==
    IF words = <<>> THEN ""
    ELSE IF Len(words) = 1 THEN Head(words)
    ELSE Head(words) \o " " \o JoinWords(Tail(words))

BasicFilter == {"um", "uh", "like", "just", "really", "actually", "basically"}

\* The loop over the tokens of nlp(text): the lemmas that are not in
\* REMOVE_WORDS and longer than one character (the cleaned text has neither
\* punctuation nor space tokens).
KeptLemmas(words) ==
    SelectSeqBy([i \in 1..Len(words) |-> LemmaOf(words[i])],
                [i \in 1..Len(words) |->
                    LemmaOf(words[i]) \notin REMOVE_WORDS /\ Len(LemmaOf(words[i])) > 1])

\* Variant: no fallback.
LemmasOrFallback_NoFallback(lemmas, words) == lemmas

\* The fallback: with fewer than 2 lemmas, text.split() through basic_filter.
LemmasOrFallback(lemmas, words) ==
    IF Len(lemmas) < 2
    THEN SelectSeqBy(words,
                     [i \in 1..Len(words) |->
                         words[i] \notin BasicFilter /\ Len(words[i]) > 1])
    ELSE lemmas

\* The list preprocess joins: the kept lemmas, or with fewer than 2 of them the
\* words of the cleaned text that pass the basic filter.
PreprocessedWords(text) ==
    IF text = <<>> THEN <<>>
    ELSE LemmasOrFallback(KeptLemmas(CleanedWords(text)), CleanedWords(text))

preprocess(text) == JoinWords(PreprocessedWords(text))

\* preprocess_batch, first loop: the cleaned text of each input, as its words
\* ("" for an empty input).
BatchCleaned(texts) ==
    [i \in 1..Len(texts) |-> IF texts[i] = <<>> THEN <<>> ELSE CleanedWords(texts[i])]

\* preprocess_batch, the lemmas kept of one document of nlp.pipe.
BatchLemmas(words) ==
    SelectSeqBy([i \in 1..Len(words) |-> LemmaOf(words[i])],
                [i \in 1..Len(words) |->
                    LemmaOf(words[i]) \notin REMOVE_WORDS /\ Len(LemmaOf(words[i])) > 1])

\* preprocess_batch, the result of one document (fallback on doc.text.split()).
BatchResult(words) ==
    IF Len(BatchLemmas(words)) < 2
    THEN JoinWords(SelectSeqBy(words,
                       [i \in 1..Len(words) |->
                           words[i] \notin BasicFilter /\ Len(words[i]) > 1]))
    ELSE JoinWords(BatchLemmas(words))

\* Variant: empty inputs are skipped in the first loop.
preprocess_batch_DropsEmpty(texts) ==
    IF texts = <<>> THEN <<>>
    ELSE [i \in 1..Len(SelectSeq(BatchCleaned(texts), LAMBDA c : c # <<>>)) |->
             BatchResult(SelectSeq(BatchCleaned(texts), LAMBDA c : c # <<>>)[i])]

preprocess_batch(texts) ==
    IF texts = <<>> THEN <<>>
    ELSE [i \in 1..Len(texts) |-> BatchResult(BatchCleaned(texts)[i])]

----------------------------------------------------------------------------
(* server.py: /drift                                                       *)

\* Variant: inclusive comparisons.
DriftAction_Inclusive(sim, stay_threshold, branch_threshold) ==
    IF RLe(stay_threshold, sim) THEN "STAY"
    ELSE IF RLe(branch_threshold, sim) THEN "BRANCH_SAME_CLUSTER"
    ELSE "BRANCH_NEW_CLUSTER"

\* Variant: the two branch actions exchanged.
DriftAction_BranchesSwapped(sim, stay_threshold, branch_threshold) ==
    IF RLt(stay_threshold, sim) THEN "STAY"
    ELSE IF RLt(branch_threshold, sim) THEN "BRANCH_NEW_CLUSTER"
    ELSE "BRANCH_SAME_CLUSTER"

\* if sim > stay: STAY / elif sim > branch: BRANCH_SAME_CLUSTER / else: BRANCH_NEW_CLUSTER
DriftAction(sim, stay_threshold, branch_threshold) ==
    IF RLt(stay_threshold, sim) THEN "STAY"
    ELSE IF RLt(branch_threshold, sim) THEN "BRANCH_SAME_CLUSTER"
    ELSE "BRANCH_NEW_CLUSTER"

\* The body of the /drift handler; embeddings is what model.encode returns for
\* [anchor, message].
check_drift(req, loaded, embeddings) ==
    IF ~loaded THEN [status |-> 503]
    ELSE LET sim == cosine_similarity(embeddings[1], embeddings[2])
         IN  [status |-> 200,
              similarity |-> sim,
              action |-> DriftAction(sim, req.stay_threshold, req.branch_threshold),
              preprocessed_anchor |->
                  IF req.preprocess THEN preprocess(req.anchor) ELSE None,
              preprocessed_message |->
                  IF req.preprocess THEN preprocess(req.message) ELSE None]

\* Variant: the encoder receives the request's texts whatever the flag.
EncoderTexts_AlwaysRaw(texts, do_preprocess) ==
    [i \in 1..Len(texts) |-> RawText(texts[i])]

\* What the handler hands to model.encode: texts = [preprocess(t) for t in texts]
\* when request.preprocess, the request's texts otherwise.
EncoderTexts(texts, do_preprocess) ==
    [i \in 1..Len(texts) |->
        IF do_preprocess THEN preprocess(texts[i]) ELSE RawText(texts[i])]

\* The texts model.encode receives in /drift.
DriftEncoderTexts(req) == EncoderTexts(<<req.anchor, req.message>>, req.preprocess)

----------------------------------------------------------------------------
(* server.py: /health, /embed, /similarity, /preprocess, /analyze-message  *)

DEFAULT_MODEL == "sentence-transformers/paraphrase-MiniLM-L6-v2"

\* Variant: no model check; reading the dimension of None raises.
health_NoModelCheck(loaded) ==
    IF ~loaded THEN [status |-> 500]
    ELSE [status |-> 200, health_status |-> "healthy", model |-> DEFAULT_MODEL]

\* The body of the /health handler.
health(loaded) ==
    IF ~loaded THEN [status |-> 503]
    ELSE [status |-> 200, health_status |-> "healthy", model |-> DEFAULT_MODEL]

\* texts = [request.text] if isinstance(request.text, str) else request.text
RequestTexts(text) == IF text.kind = "str" THEN <<text.value>> ELSE text.value

\* The texts model.encode receives in /embed.
EmbedEncoderTexts(req) == EncoderTexts(RequestTexts(req.text), req.preprocess)

\* The body of the /embed handler; embeddings is what model.encode returns.
embed(req, loaded, embeddings) ==
    IF ~loaded THEN [status |-> 503]
    ELSE [status |-> 200,
          embeddings |-> embeddings,
          dimension |-> Len(embeddings[1]),
          model |-> DEFAULT_MODEL,
          preprocessed_texts |->
              IF req.preprocess THEN EmbedEncoderTexts(req) ELSE None]

\* The texts model.encode receives in /similarity.
SimilarityEncoderTexts(req) == EncoderTexts(<<req.text1, req.text2>>, req.preprocess)

\* Variant: the question mark of text2 is not looked at.
AdjustedSimilarity_IgnoresText2(sim, text1, text2) ==
    IF HasQuestionMark(RawTokens(text1)) THEN RMul(sim, Rat(13, 10)) ELSE sim

\* sim * 1.3 if '?' in request.text1 and not '?' in request.text2 else sim
AdjustedSimilarity(sim, text1, text2) ==
    IF HasQuestionMark(RawTokens(text1)) /\ ~HasQuestionMark(RawTokens(text2))
    THEN RMul(sim, Rat(13, 10))
    ELSE sim

\* The body of the /similarity handler; embeddings is what model.encode returns
\* for [text1, text2].
similarity(req, loaded, embeddings) ==
    IF ~loaded THEN [status |-> 503]
    ELSE [status |-> 200,
          similarity |-> cosine_similarity(embeddings[1], embeddings[2]),
          adjusted_similarity |->
              AdjustedSimilarity(cosine_similarity(embeddings[1], embeddings[2]),
                                 req.text1, req.text2),
          preprocessed_text1 |->
              IF req.preprocess THEN SimilarityEncoderTexts(req)[1] ELSE None,
          preprocessed_text2 |->
              IF req.preprocess THEN SimilarityEncoderTexts(req)[2] ELSE None]

\* The body of the /preprocess handler.
preprocess_text(req) ==
    [status |-> 200,
     original |-> EncoderTexts(RequestTexts(req.text), FALSE),
     preprocessed |-> EncoderTexts(RequestTexts(req.text), TRUE)]

\* The /analyze-message response for analyzed messages: the analysis flag of
\* the current message is or-ed with ANAPHORIC_PATTERNS.search(request.current).
AnalyzedMessage(req, current_analysis, previous_analysis) ==
    [status |-> 200,
     analysis |->
         [AnalyzeMessageResponse(
              current_analysis, previous_analysis,
              \/ current_analysis.has_topic_pivot
              \/ PatternSearch(TOPIC_PIVOT_PATTERNS, RawTokens(req.current)),
              current_analysis.has_preference, current_analysis.preferred_entity,
              current_analysis.rejected_entity,
              calculate_entity_overlap(current_analysis.all_entities,
                                       previous_analysis.all_entities))
          EXCEPT !.current_has_anaphoric_ref =
                     @ \/ PatternSearch(ANAPHORIC_PATTERNS, RawTokens(req.current))]]

\* The body of the /analyze-message handler (server.py analyze_message).
analyze_message_endpoint(req) ==
    AnalyzedMessage(req, MessageAnalyses[req.current], MessageAnalyses[req.previous])

----------------------------------------------------------------------------
(* Requests                                                                *)

\* Vectors with integral norms; the cosines of <<3, 4>> with the centroids are
\* 1, 33/65, 7/25, 0, -7/25, -1 and (zero norm) 0; <<1>> has another dimension.
Embeddings == { <<3, 4>>, <<1>>, <<0, 0>> }

Centroids == { <<3, 4>>, <<-5, 12>>, <<-3, 4>>, <<4, -3>>, <<3, -4>>, <<-3, -4>>, <<0, 0>> }

\* What model.encode may return for the two texts of a /drift request.
EncoderOutputs == Centroids \X {<<3, 4>>}

Thresholds == { Rat(38, 100), Rat(15, 100), Rat(7, 25), Rat(0, 1) }

\* (current_embedding, branch_centroid): the two-dimensional embedding against
\* every centroid, the other embeddings against a centroid of another length
\* or of norm zero.
EmbeddingPairs ==
    ({<<3, 4>>} \X Centroids) \cup ((Embeddings \ {<<3, 4>>}) \X {<<3, 4>>, <<0, 0>>})

AnalyzeDriftRequests ==
    { [endpoint |-> "/analyze-drift", current |-> c, previous |-> p,
       current_embedding |-> e[1], branch_centroid |-> e[2]] :
      c \in Messages, p \in PreviousMessages, e \in EmbeddingPairs }

DriftRequests ==
    [endpoint : {"/drift"}, anchor : {<<"renovating">>}, message : {<<"howbig">>, <<"yes">>, <<>>},
     preprocess : BOOLEAN, stay_threshold : Thresholds, branch_threshold : Thresholds]

\* Texts of the /embed, /preprocess and preprocess_batch inputs.
EndpointTexts == { <<"howbig">>, <<"yes">>, <<>>, <<"help">> }

\* Longest list of texts.
MaxTexts == 2

TextLists == UNION {[1..n -> EndpointTexts] : n \in 1..MaxTexts}

\* request.text: str | list[str]
TextInputs == [kind : {"str"}, value : EndpointTexts] \cup [kind : {"list"}, value : TextLists]

HealthRequests == { [endpoint |-> "/health"] }

EmbedRequests == [endpoint : {"/embed"}, text : TextInputs, preprocess : BOOLEAN]

\* What model.encode may return for n texts.
EmbedOutputs(n) == [1..n -> { <<3, 4>>, <<-5, 12>> }]

SimilarityTexts == { <<"howbig">>, <<"renovating">>, <<"why">>, <<>> }

SimilarityRequests ==
    [endpoint : {"/similarity"}, text1 : SimilarityTexts, text2 : SimilarityTexts,
     preprocess : BOOLEAN]

PreprocessRequests ==
    [endpoint : {"/preprocess"},
     text : TextInputs \cup { [kind |-> "list", value |-> << >>] }]

\* Calls of preprocessing.preprocess_batch.
PreprocessBatchCalls ==
    [endpoint : {"preprocess_batch"}, texts : TextLists \cup { << >> }]

AnalyzeMessageRequests ==
    [endpoint : {"/analyze-message"}, current : Messages, previous : PreviousMessages]

Requests ==
    AnalyzeDriftRequests \cup DriftRequests \cup HealthRequests \cup EmbedRequests
        \cup SimilarityRequests \cup PreprocessRequests \cup PreprocessBatchCalls
        \cup AnalyzeMessageRequests

NoResponse == [status |-> 0]

----------------------------------------------------------------------------
(* The state machine                                                       *)

Init ==
    /\ model = "None"
    /\ phase = "init"
    /\ request \in Requests
    /\ response = NoResponse
    /\ encoder_calls = << >>
    /\ requests = << >>
    /\ responses = << >>
    /\ nlp_calls = << >>

\* lifespan, up to the yield: the encoder is loaded.
Startup ==
    /\ phase = "init"
    /\ model' = "SentenceTransformer"
    /\ phase' = "serving"
    /\ UNCHANGED <<request, response, encoder_calls, requests, responses, nlp_calls>>

\* lifespan, after the yield.
Shutdown ==
    /\ phase = "serving"
    /\ model' = "None"
    /\ phase' = "shutdown"
    /\ UNCHANGED <<request, response, encoder_calls, requests, responses, nlp_calls>>

AnalyzeDrift ==
    /\ request.endpoint = "/analyze-drift"
    /\ response = NoResponse
    /\ response' = analyze_drift(request)
    /\ UNCHANGED <<model, phase, request, encoder_calls, requests, responses, nlp_calls>>

\* model.encode(texts) in a handler: reached only behind the model check.
Encode(texts) ==
    IF model = "None" THEN encoder_calls ELSE Append(encoder_calls, texts)

\* nlp(text) in preprocess: the analyzer receives the cleaned text of every
\* text that is not blank.
NlpTexts(texts) ==
    [i \in 1..Len(SelectSeq(texts, LAMBDA t : t # <<>>)) |->
        JoinWords(CleanedWords(SelectSeq(texts, LAMBDA t : t # <<>>)[i]))]

\* [preprocess(t) for t in texts] in a handler: behind the model check and
\* the preprocess flag.
Preprocess(texts, do_preprocess) ==
    IF model = "None" \/ ~do_preprocess THEN nlp_calls ELSE nlp_calls \o NlpTexts(texts)

CheckDrift ==
    /\ request.endpoint = "/drift"
    /\ response = NoResponse
    /\ \E embeddings \in EncoderOutputs :
           response' = check_drift(request, model # "None", embeddings)
    /\ encoder_calls' = Encode(DriftEncoderTexts(request))
    /\ nlp_calls' = Preprocess(<<request.anchor, request.message>>, request.preprocess)
    /\ UNCHANGED <<model, phase, request, requests, responses>>

Health ==
    /\ request.endpoint = "/health"
    /\ response = NoResponse
    /\ response' = health(model # "None")
    /\ UNCHANGED <<model, phase, request, encoder_calls, requests, responses, nlp_calls>>

Embed ==
    /\ request.endpoint = "/embed"
    /\ response = NoResponse
    /\ \E embeddings \in EmbedOutputs(Len(RequestTexts(request.text))) :
           response' = embed(request, model # "None", embeddings)
    /\ encoder_calls' = Encode(EmbedEncoderTexts(request))
    /\ nlp_calls' = Preprocess(RequestTexts(request.text), request.preprocess)
    /\ UNCHANGED <<model, phase, request, requests, responses>>

Similarity ==
    /\ request.endpoint = "/similarity"
    /\ response = NoResponse
    /\ \E embeddings \in EncoderOutputs :
           response' = similarity(request, model # "None", embeddings)
    /\ encoder_calls' = Encode(SimilarityEncoderTexts(request))
    /\ nlp_calls' = Preprocess(<<request.text1, request.text2>>, request.preprocess)
    /\ UNCHANGED <<model, phase, request, requests, responses>>

PreprocessText ==
    /\ request.endpoint = "/preprocess"
    /\ response = NoResponse
    /\ response' = preprocess_text(request)
    /\ nlp_calls' = nlp_calls \o NlpTexts(RequestTexts(request.text))
    /\ UNCHANGED <<model, phase, request, encoder_calls, requests, responses>>

\* A call of preprocess_batch; its return value is recorded like a response.
PreprocessBatch ==
    /\ request.endpoint = "preprocess_batch"
    /\ response = NoResponse
    /\ response' = [status |-> 200, results |-> preprocess_batch(request.texts)]
    \* nlp.pipe(cleaned) receives every cleaned text, the empty ones included
    /\ nlp_calls' = nlp_calls \o [i \in 1..Len(request.texts) |->
                                     JoinWords(BatchCleaned(request.texts)[i])]
    /\ UNCHANGED <<model, phase, request, encoder_calls, requests, responses>>

AnalyzeMessage ==
    /\ request.endpoint = "/analyze-message"
    /\ response = NoResponse
    /\ response' = analyze_message_endpoint(request)
    /\ UNCHANGED <<model, phase, request, encoder_calls, requests, responses, nlp_calls>>

Next ==
    \/ Startup \/ Shutdown \/ AnalyzeDrift \/ CheckDrift \/ Health \/ Embed
    \/ Similarity \/ PreprocessText \/ PreprocessBatch \/ AnalyzeMessage

Spec == Init /\ [][Next]_vars

----------------------------------------------------------------------------
(* Concurrent requests: NumClients requests are in flight at once.  The     *)
(* handlers are coroutines without an await, so each runs to its return     *)
(* statement as one step of the event loop; the steps of different requests *)
(* and of lifespan interleave in any order.                                 *)

NumClients == 2

Clients == 1..NumClients

ConcurrentRequests ==
    [endpoint : {"/analyze-drift"}, current : { <<"yes">>, <<"car">> },
     previous : { <<"howbig">> }, current_embedding : { <<3, 4>> },
     branch_centroid : { <<3, 4>>, <<-5, 12>> }]
    \cup [endpoint : {"/analyze-message"}, current : { <<"yes">>, <<"car">> },
          previous : { <<"howbig">> }]
    \cup [endpoint : {"/preprocess"},
          text : [kind : {"str"}, value : { <<"help">>, <<"yes">> }]]
    \cup HealthRequests
    \cup [endpoint : {"/drift"}, anchor : { <<"renovating">> }, message : { <<"howbig">> },
          preprocess : BOOLEAN, stay_threshold : { Rat(38, 100) },
          branch_threshold : { Rat(15, 100) }]

\* What a handler reads: its request and the global model (loaded or not).
\* The set holds one response per value model.encode may return.
HandlerResponses(req, loaded) ==
    CASE req.endpoint = "/analyze-drift" -> { analyze_drift(req) }
      [] req.endpoint = "/analyze-message" -> { analyze_message_endpoint(req) }
      [] req.endpoint = "/preprocess" -> { preprocess_text(req) }
      [] req.endpoint = "/health" -> { health(loaded) }
      [] req.endpoint = "/drift" ->
             { check_drift(req, loaded, embeddings) : embeddings \in EncoderOutputs }

\* Variant: the handlers keep their result in one module-level object.
Returned_SharedResult(client, resp) == [c \in Clients |-> resp]

\* The return statement of a handler: the response goes to its own request.
Returned(client, resp) == [responses EXCEPT ![client] = resp]

ConcurrentInit ==
    /\ model = "None"
    /\ phase = "init"
    /\ request = [endpoint |-> "concurrent"]
    /\ response = NoResponse
    /\ encoder_calls = << >>
    /\ requests \in [Clients -> ConcurrentRequests]
    /\ responses = [c \in Clients |-> NoResponse]
    /\ nlp_calls = << >>

\* The handler of the request of one client runs.
Handle(client) ==
    /\ responses[client] = NoResponse
    /\ \E resp \in HandlerResponses(requests[client], model # "None") :
           responses' = Returned(client, resp)
    /\ encoder_calls' = IF requests[client].endpoint = "/drift"
                        THEN Encode(DriftEncoderTexts(requests[client]))
                        ELSE encoder_calls
    /\ nlp_calls' =
           CASE requests[client].endpoint = "/drift" ->
                    Preprocess(<<requests[client].anchor, requests[client].message>>,
                               requests[client].preprocess)
             [] requests[client].endpoint = "/preprocess" ->
                    nlp_calls \o NlpTexts(RequestTexts(requests[client].text))
             [] OTHER -> nlp_calls
    /\ UNCHANGED <<model, phase, request, response, requests>>

ConcurrentNext ==
    \/ Startup
    \/ Shutdown
    \/ \E client \in Clients : Handle(client)

ConcurrentSpec == ConcurrentInit /\ [][ConcurrentNext]_vars

----------------------------------------------------------------------------
(* Properties of /analyze-drift                                            *)

\* A scored /analyze-drift response is in the state.
Scored == request.endpoint = "/analyze-drift" /\ response.status = 200

CurrentHasPreference == MessageAnalyses[request.current].has_preference

\* The topic-pivot cue: the analyzer flag of a sentence or the pattern on the text.
CurrentHasTopicPivot ==
    \/ MessageAnalyses[request.current].has_topic_pivot
    \/ PatternSearch(TOPIC_PIVOT_PATTERNS, RawTokens(request.current))

NoShortCircuit == ~CurrentHasPreference /\ ~CurrentHasTopicPivot

HasTag(tag) == \E i \in 1..Len(response.boosts_applied) : response.boosts_applied[i] = tag

\* C1 as stated: in every /analyze-drift response boosted_similarity is in [0, 1].
C1_BoostedInUnitInterval ==
    Scored => /\ RLe(RZero, response.boosted_similarity)
              /\ RLe(response.boosted_similarity, ROne)

\* C1 amended: boosted_similarity never exceeds 1, and it is at least 0 whenever
\* raw_similarity is at least 0 (so it is in [0, 1] for every raw cosine in [0, 1]).
C1_BoostedCappedAndNonNegativeForNonNegativeRaw ==
    Scored => /\ RLe(response.boosted_similarity, ROne)
              /\ RLe(RZero, response.raw_similarity)
                     => RLe(RZero, response.boosted_similarity)

\* The cap acted: boosts lifted a raw similarity below 1 up to the cap.
C1_Witness ==
    /\ Scored /\ NoShortCircuit
    /\ RLe(RZero, response.raw_similarity) /\ RLt(response.raw_similarity, ROne)
    /\ Len(response.boosts_applied) >= 2
    /\ response.boosted_similarity = ROne

\* C2: a preference in the current message short-circuits: boosted = raw,
\* multiplier 1.0 and boosts_applied = ["preference_detected"], whatever else the
\* messages contain.
C2_PreferenceShortCircuit ==
    (Scored /\ CurrentHasPreference)
        => /\ response.boosted_similarity = response.raw_similarity
           /\ response.boost_multiplier = ROne
           /\ response.boosts_applied = <<"preference_detected">>

\* A preference together with a topic-pivot cue, after a question, with a raw
\* similarity that boosts would have changed.
C2_Witness ==
    /\ Scored /\ CurrentHasPreference /\ CurrentHasTopicPivot
    /\ MessageAnalyses[request.previous].is_question
    /\ response.raw_similarity = Rat(7, 25)
    /\ response.boosts_applied = <<"preference_detected">>

\* C3: without a preference, a topic-pivot cue short-circuits: boosted = raw,
\* multiplier 1.0 and no boost tag at all.
C3_TopicPivotShortCircuit ==
    (Scored /\ ~CurrentHasPreference /\ CurrentHasTopicPivot)
        => /\ response.boosted_similarity = response.raw_similarity
           /\ response.boost_multiplier = ROne
           /\ response.boosts_applied = <<>>

\* A pivot cue in a message that also has an anaphoric reference ("That's cool.
\* Anyway, tell me ..."), after a question, with a raw similarity below every floor.
C3_Witness ==
    /\ Scored /\ ~CurrentHasPreference /\ CurrentHasTopicPivot
    /\ MessageAnalyses[request.current].has_anaphoric_ref
    /\ MessageAnalyses[request.previous].is_question
    /\ response.raw_similarity = Rat(-7, 25)
    /\ response.boosts_applied = <<>>

C5_MultiplierIsRatio ==
    Scored => IF response.raw_similarity = RZero
              THEN response.boost_multiplier = ROne
              ELSE response.boost_multiplier
                       = RDiv(response.boosted_similarity, response.raw_similarity)

\* The position of a rule tag in the fixed order of the rules (0: not a rule tag).
RuleSlot(tag) ==
    CASE tag \in {"response_particle", "ultra_short_response"} -> 1
      [] tag = "qa_pair" -> 2
      [] tag \in {"anaphoric_ref", "anaphoric_ref_weak"} -> 3
      [] tag = "question" -> 4
      [] tag = "entity_overlap" -> 5
      [] OTHER -> 0

\* What the rule of a tag does to a score, as the specification states it.
RuleEffect(tag, score) ==
    CASE tag = "response_particle" -> RMax(score, Rat(55, 100))
      [] tag = "ultra_short_response" -> RMax(score, Rat(50, 100))
      [] tag = "qa_pair" -> RMul(score, Rat(13, 10))
      [] tag = "anaphoric_ref" -> RMul(RMax(score, Rat(45, 100)), Rat(3, 2))
      [] tag = "anaphoric_ref_weak" -> RMul(score, Rat(3, 2))
      [] tag = "question" -> RMul(score, Rat(16, 10))
      [] tag = "entity_overlap" ->
            RMul(score, RAdd(ROne, RMin(response.analysis.entity_overlap.overlap_score, ROne)))
      [] OTHER -> score

RECURSIVE Replay(_, _)
\* The score after the rules of the tags, applied in the order of the list.
Replay(tags, score) ==
    IF tags = <<>> THEN score ELSE Replay(Tail(tags), RuleEffect(Head(tags), score))

\* C6: on the boost path boosts_applied follows the fixed rule order (strictly
\* increasing slots: no tag twice, at most one tag per slot) and the score is the
\* result of applying the rules in the order of the list, capped at 1.
C6_RulesInFixedOrder ==
    (Scored /\ NoShortCircuit)
        => /\ \A i \in 1..Len(response.boosts_applied) :
                  RuleSlot(response.boosts_applied[i]) >= 1
           /\ \A i, j \in 1..Len(response.boosts_applied) :
                  i < j => RuleSlot(response.boosts_applied[i])
                               < RuleSlot(response.boosts_applied[j])
           /\ response.boosted_similarity
                  = RMin(Replay(response.boosts_applied, response.raw_similarity), ROne)

\* Three rules in a row where the order decides the score: floor 0.50, x1.3, then
\* the anaphoric floor and x1.5 give 0.975 from a raw of 0.28.
C6_Witness ==
    /\ Scored /\ NoShortCircuit
    /\ response.boosts_applied = <<"ultra_short_response", "qa_pair", "anaphoric_ref">>
    /\ response.raw_similarity = Rat(7, 25)
    /\ response.boosted_similarity = Rat(39, 40)

\* The current message starts with a response particle and has at most 4 words.
CurrentIsResponseParticle ==
    /\ Words(request.current) # <<>>
    /\ Words(request.current)[1] \in RESPONSE_PARTICLES
    /\ Len(Words(request.current)) <= 4

\* C7: on the boost path a message that starts with a response particle and has
\* at most 4 words gets the tag response_particle and a score >= 0.55, for every
\* raw similarity.
C7_ResponseParticleFloor ==
    (Scored /\ NoShortCircuit /\ CurrentIsResponseParticle)
        => /\ HasTag("response_particle")
           /\ RLe(Rat(55, 100), response.boosted_similarity)

\* A four-word particle message scored against an opposite centroid (raw = -1).
C7_Witness ==
    /\ Scored /\ NoShortCircuit /\ CurrentIsResponseParticle
    /\ Len(Words(request.current)) = 4
    /\ response.raw_similarity = Rat(-1, 1)
    /\ HasTag("response_particle")

\* The floor-suppression predicate of the current message against the previous.
FloorSuppressed ==
    should_suppress_anaphoric_floor(MessageAnalyses[request.current],
                                    MessageAnalyses[request.previous].all_entities)

\* C8: on the boost path an anaphoric reference whose floor is not suppressed
\* gets the tag anaphoric_ref and a score >= 0.45, for every raw similarity.
C8_AnaphoricFloor ==
    (Scored /\ NoShortCircuit /\ MessageAnalyses[request.current].has_anaphoric_ref
        /\ ~FloorSuppressed)
        => /\ HasTag("anaphoric_ref")
           /\ RLe(Rat(45, 100), response.boosted_similarity)

\* The anaphoric floor alone lifts a negative raw similarity: no particle or
\* short-response floor applies to the message.
C8_Witness ==
    /\ Scored /\ NoShortCircuit /\ ~FloorSuppressed
    /\ HasTag("anaphoric_ref")
    /\ ~HasTag("response_particle") /\ ~HasTag("ultra_short_response")
    /\ RLt(response.raw_similarity, RZero)

----------------------------------------------------------------------------
(* Properties of /drift                                                    *)

\* A /drift response with an action is in the state.
Drifted == request.endpoint = "/drift" /\ response.status = 200

DriftActions == {"STAY", "BRANCH_SAME_CLUSTER", "BRANCH_NEW_CLUSTER"}

\* The mapping of the specification: STAY iff sim > stay, BRANCH_SAME_CLUSTER iff
\* branch < sim <= stay, BRANCH_NEW_CLUSTER iff sim <= branch.
ActionMapping ==
    /\ response.action \in DriftActions
    /\ response.action = "STAY" <=> RLt(request.stay_threshold, response.similarity)
    /\ response.action = "BRANCH_SAME_CLUSTER"
           <=> /\ RLt(request.branch_threshold, response.similarity)
               /\ RLe(response.similarity, request.stay_threshold)
    /\ response.action = "BRANCH_NEW_CLUSTER"
           <=> RLe(response.similarity, request.branch_threshold)

\* C9 as stated: the mapping holds for every pair of thresholds a request supplies.
C9_ActionMappingAnyThresholds == Drifted => ActionMapping

\* C9 amended: for every pair of thresholds, STAY iff sim > stay; otherwise
\* (sim <= stay) BRANCH_SAME_CLUSTER iff sim > branch and BRANCH_NEW_CLUSTER iff
\* sim <= branch.  With branch_threshold <= stay_threshold this is the mapping of
\* the specification.
C9_ActionMappingStayFirst ==
    Drifted =>
        /\ response.action \in DriftActions
        /\ response.action = "STAY" <=> RLt(request.stay_threshold, response.similarity)
        /\ response.action = "BRANCH_SAME_CLUSTER"
               <=> /\ RLe(response.similarity, request.stay_threshold)
                   /\ RLt(request.branch_threshold, response.similarity)
        /\ response.action = "BRANCH_NEW_CLUSTER"
               <=> /\ RLe(response.similarity, request.stay_threshold)
                   /\ RLe(response.similarity, request.branch_threshold)
        /\ RLe(request.branch_threshold, request.stay_threshold) => ActionMapping

\* Inverted thresholds (stay < branch) with a similarity between them: STAY,
\* although sim <= branch_threshold.
C9_Witness ==
    /\ Drifted
    /\ RLt(request.stay_threshold, request.branch_threshold)
    /\ RLt(request.stay_threshold, response.similarity)
    /\ RLe(response.similarity, request.branch_threshold)
    /\ response.action = "STAY"

\* The similarities the encoder outputs of the model give.
Sims == {cosine_similarity(e[1], e[2]) : e \in EncoderOutputs}

ActionRank(action) ==
    CASE action = "BRANCH_NEW_CLUSTER" -> 0
      [] action = "BRANCH_SAME_CLUSTER" -> 1
      [] action = "STAY" -> 2

\* C10: for the thresholds of the request, the action is monotone in sim: a
\* larger similarity never gets a lower action, a smaller one never a higher.
C10_ActionMonotone ==
    Drifted =>
        \A sim2 \in Sims :
            /\ RLe(response.similarity, sim2)
                   => ActionRank(response.action)
                          <= ActionRank(DriftAction(sim2, request.stay_threshold,
                                                    request.branch_threshold))
            /\ RLe(sim2, response.similarity)
                   => ActionRank(DriftAction(sim2, request.stay_threshold,
                                             request.branch_threshold))
                          <= ActionRank(response.action)

\* A similarity exactly at the stay threshold (BRANCH_SAME_CLUSTER) with a larger
\* similarity that stays and a smaller one that branches to a new cluster.
C10_Witness ==
    /\ Drifted
    /\ response.similarity = request.stay_threshold
    /\ response.action = "BRANCH_SAME_CLUSTER"
    /\ \E hi, lo \in Sims :
           /\ RLt(lo, response.similarity) /\ RLt(response.similarity, hi)
           /\ DriftAction(hi, request.stay_threshold, request.branch_threshold) = "STAY"
           /\ DriftAction(lo, request.stay_threshold, request.branch_threshold)
                  = "BRANCH_NEW_CLUSTER"

----------------------------------------------------------------------------
(* Properties of the lifecycle and of malformed input                      *)

\* The endpoints that use the encoder.
ModelEndpoints == {"/health", "/embed", "/similarity", "/drift"}

\* C11: a request to /health, /embed, /similarity or /drift handled while the
\* encoder is not loaded (before startup or after shutdown) is answered 503 and
\* the encoder is not called; handled while the encoder is loaded it is not
\* answered 503.
C11_ModelUnavailableIs503 ==
    [][(request.endpoint \in ModelEndpoints /\ response = NoResponse
            /\ response' # NoResponse)
        => IF model = "None"
           THEN response'.status = 503 /\ encoder_calls' = encoder_calls
           ELSE response'.status # 503]_vars

\* An /embed request answered 503 after the shutdown, the encoder never called.
C11_Witness ==
    /\ request.endpoint = "/embed"
    /\ phase = "shutdown"
    /\ response.status = 503
    /\ encoder_calls = << >>

\* An /analyze-drift request whose two vectors differ in length was answered.
LengthMismatchAnswered ==
    /\ request.endpoint = "/analyze-drift"
    /\ response # NoResponse
    /\ Len(request.current_embedding) # Len(request.branch_centroid)

\* C12 as stated: an /analyze-drift request whose current_embedding and
\* branch_centroid differ in length is answered with status 400.
C12_LengthMismatchIs400 == LengthMismatchAnswered => response.status = 400

\* An /analyze-drift request with a vector of zero norm (and equal lengths) was
\* answered.
ZeroNormAnswered ==
    /\ request.endpoint = "/analyze-drift"
    /\ response # NoResponse
    /\ Len(request.current_embedding) = Len(request.branch_centroid)
    /\ \/ Norm(request.current_embedding) = 0
       \/ Norm(request.branch_centroid) = 0

\* C13: with a current_embedding or a branch_centroid of zero norm,
\* /analyze-drift answers normally with raw_similarity = 0.0.
C13_ZeroNormGivesZero ==
    ZeroNormAnswered => response.status = 200 /\ response.raw_similarity = RZero

\* An all-zero current_embedding against a centroid of norm 5.
C13_Witness ==
    /\ ZeroNormAnswered
    /\ request.current_embedding = <<0, 0>>
    /\ Norm(request.branch_centroid) = 5
    /\ response.status = 200
    /\ response.raw_similarity = RZero

----------------------------------------------------------------------------
(* Properties of the entity analysis                                       *)

\* A request whose handler analyzes current and previous was answered.
Analyzed ==
    /\ request.endpoint \in {"/analyze-drift", "/analyze-message"}
    /\ response.status = 200

\* The sum of the weights of the entities whose lemma is in lemmas.
WeightOf(entities, lemmas) ==
    LET sum[i \in 0..Len(entities)] ==
            IF i = 0 THEN RZero
            ELSE IF entities[i].lemma \in lemmas
                 THEN RAdd(sum[i - 1], entities[i].weight)
                 ELSE sum[i - 1]
    IN  sum[Len(entities)]

\* What C14 says of a result (score, shared) for the analyses current, previous.
OverlapSound(result, current, previous) ==
    /\ RLe(RZero, result[1]) /\ RLe(result[1], ROne)
    /\ result[1] = IF current.total_weight = RZero THEN RZero
                   ELSE RDiv(WeightOf(current.entities, result[2]), current.total_weight)
    /\ result[2] \subseteq ({e.lemma : e \in Range(current.entities)}
                                \cap {e.lemma : e \in Range(previous.entities)})

\* C14: calculate_entity_overlap returns a score in [0, 1] (0.0 when
\* current.total_weight is 0, shared_weight / current.total_weight otherwise)
\* and a shared set within current.lemmas \cap previous.lemmas; the response
\* carries that score and that set.
C14_OverlapScoreAndSharedSet ==
    Analyzed =>
        /\ OverlapSound(
               calculate_entity_overlap(MessageAnalyses[request.current].all_entities,
                                        MessageAnalyses[request.previous].all_entities),
               MessageAnalyses[request.current].all_entities,
               MessageAnalyses[request.previous].all_entities)
        /\ OverlapSound(
               <<response.analysis.entity_overlap.overlap_score,
                 response.analysis.entity_overlap.shared_entities>>,
               MessageAnalyses[request.current].all_entities,
               MessageAnalyses[request.previous].all_entities)

\* A partial overlap: some, not all, of the weight of current is shared.
C14_Witness ==
    /\ Analyzed
    /\ response.analysis.entity_overlap.shared_entities # {}
    /\ RLt(RZero, response.analysis.entity_overlap.overlap_score)
    /\ RLt(response.analysis.entity_overlap.overlap_score, ROne)

\* What C15 says of an EntityAnalysis.
EntityAnalysisSound(analysis) ==
    /\ \A i, j \in 1..Len(analysis.entities) :
           i # j => analysis.entities[i].lemma # analysis.entities[j].lemma
    /\ analysis.total_weight
           = WeightOf(analysis.entities, {e.lemma : e \in Range(analysis.entities)})
    /\ analysis.high_value_entities
           = [i \in 1..Len(SelectSeq(analysis.entities,
                                       LAMBDA e : RLe(Rat(2, 1), e.weight))) |->
                 SelectSeq(analysis.entities, LAMBDA e : RLe(Rat(2, 1), e.weight))[i].lemma]

\* C15: the EntityAnalysis of every document has pairwise distinct lemmas,
\* total_weight equal to the sum of the weights, and as high-value list the
\* lemmas of the entities of weight >= 2.0 in insertion order.
\* EntityAnalysisSound of every message a request carries, evaluated once.
EntityAnalysesSound ==
    [text \in Messages \cup PreviousMessages |->
        EntityAnalysisSound(extract_weighted_entities(nlp_full(text)))] @@ << >>

C15_EntityAnalysisSound ==
    Analyzed =>
        /\ EntityAnalysesSound[request.current]
        /\ EntityAnalysesSound[request.previous]

\* A document that repeats a sentence with entities of both kinds: every lemma
\* occurs twice in the text and once in the analysis.
C15_Witness ==
    /\ Analyzed
    /\ Len(request.current) = 2 /\ request.current[1] = request.current[2]
    /\ Len(MessageAnalyses[request.current].all_entities.high_value_entities) >= 2
    /\ Len(MessageAnalyses[request.current].all_entities.high_value_entities)
           < Len(MessageAnalyses[request.current].all_entities.entities)

----------------------------------------------------------------------------
(* Properties of preprocessing and of the encoder's input                  *)

\* C16: preprocess_batch(ts) has the length of ts and its i-th element is
\* preprocess(ts[i]), empty inputs (mapped to "", not dropped) and the
\* fewer-than-two-lemmas fallback included.
C16_BatchIsElementwisePreprocess ==
    (request.endpoint = "preprocess_batch" /\ response # NoResponse) =>
        /\ Len(response.results) = Len(request.texts)
        /\ \A i \in 1..Len(request.texts) :
               response.results[i] = preprocess(request.texts[i])

\* A batch of an empty text and of a text that takes the fallback.
C16_Witness ==
    /\ request.endpoint = "preprocess_batch" /\ response # NoResponse
    /\ Len(request.texts) = 2
    /\ request.texts[1] = <<>> /\ response.results[1] = ""
    /\ request.texts[2] # <<>>
    /\ Len(BatchLemmas(CleanedWords(request.texts[2]))) < 2
    /\ response.results[2] # ""

\* A request of one of the three encoding endpoints was answered normally.
EncodingAnswered ==
    /\ request.endpoint \in {"/embed", "/similarity", "/drift"}
    /\ response.status = 200

\* The texts of the request, in the order of the handler.
TextsOf(req) ==
    CASE req.endpoint = "/embed" -> RequestTexts(req.text)
      [] req.endpoint = "/similarity" -> <<req.text1, req.text2>>
      [] req.endpoint = "/drift" -> <<req.anchor, req.message>>

\* The preprocessed_* fields of the response, in the same order; None for
\* /embed when preprocessed_texts is None.
EchoOf(req, resp) ==
    CASE req.endpoint = "/embed" -> resp.preprocessed_texts
      [] req.endpoint = "/similarity" -> <<resp.preprocessed_text1, resp.preprocessed_text2>>
      [] req.endpoint = "/drift" -> <<resp.preprocessed_anchor, resp.preprocessed_message>>

\* C17: within one /embed, /similarity or /drift request the encoder is called
\* once; with preprocess=true it receives preprocess(t) for each text t in
\* order and the preprocessed_* fields echo those strings; with
\* preprocess=false it receives the raw texts and every preprocessed_* field
\* is null.
C17_EncoderInputAndEcho ==
    EncodingAnswered =>
        /\ Len(encoder_calls) = 1
        /\ Len(encoder_calls[1]) = Len(TextsOf(request))
        /\ IF request.preprocess
           THEN /\ \A i \in 1..Len(TextsOf(request)) :
                       encoder_calls[1][i] = preprocess(TextsOf(request)[i])
                /\ EchoOf(request, response) = encoder_calls[1]
           ELSE /\ \A i \in 1..Len(TextsOf(request)) :
                       encoder_calls[1][i] = RawText(TextsOf(request)[i])
                /\ IF request.endpoint = "/embed"
                   THEN EchoOf(request, response) = None
                   ELSE EchoOf(request, response) = <<None, None>>

\* A preprocessed /embed request of two texts that preprocess changes.
C17_Witness ==
    /\ EncodingAnswered
    /\ request.endpoint = "/embed" /\ request.preprocess
    /\ Len(encoder_calls[1]) = 2
    /\ \A i \in 1..2 : encoder_calls[1][i] # RawText(TextsOf(request)[i])
    /\ encoder_calls[1][1] # encoder_calls[1][2]

PleaseAndHelpText(text) ==
    /\ text # <<>>
    /\ {"please", "help"} \subseteq Range(CleanedWords(text))
    /\ Len(SelectSeq(PreprocessedWords(text),
                      LAMBDA w : w \notin {"please", "help"})) >= 2

\* C19: for a text given to /preprocess that holds "please" and "help" next to
\* at least two topic-bearing words, the preprocessed output is shorter than
\* the original and holds neither "please" nor "help".
C19_PleaseAndHelpRemoved ==
    (request.endpoint = "/preprocess" /\ response # NoResponse) =>
        \A i \in 1..Len(RequestTexts(request.text)) :
            PleaseAndHelpText(RequestTexts(request.text)[i]) =>
                /\ response.preprocessed[i]
                       = JoinWords(PreprocessedWords(RequestTexts(request.text)[i]))
                /\ Len(response.preprocessed[i]) < Len(response.original[i])
                /\ "please" \notin Range(PreprocessedWords(RequestTexts(request.text)[i]))
                /\ "help" \notin Range(PreprocessedWords(RequestTexts(request.text)[i]))

----------------------------------------------------------------------------
(* /analyze-drift against /analyze-message                                 *)

\* C20: the analysis object of the /analyze-drift response, on each of its
\* three paths, equals field by field the AnalyzeMessageResponse that
\* /analyze-message returns for the same (current, previous).
C20_AnalysisIsAnalyzeMessageResponse ==
    (request.endpoint = "/analyze-drift" /\ response.status = 200) =>
        response.analysis
            = AnalyzedMessage(request, MessageAnalyses[request.current],
                              MessageAnalyses[request.previous]).analysis

----------------------------------------------------------------------------
(* Properties of concurrent requests                                       *)

----------------------------------------------------------------------------
(* Properties of the single boost rules                                    *)

\* The lemmas of the entities of current that no entity of previous has.
NewLemmas(current, previous) ==
    {e.lemma : e \in Range(current.entities)} \ {e.lemma : e \in Range(previous.entities)}

\* The entity part of the floor-suppression predicate as the claim states it:
\* new-entity weight >= 4.0, or at least 2 new entities of weight >= 2.0.
NewEntitiesSuppress(current, previous) ==
    \/ RLe(Rat(4, 1), WeightOf(current.entities, NewLemmas(current, previous)))
    \/ Cardinality({i \in 1..Len(current.entities) :
                        /\ current.entities[i].lemma \in NewLemmas(current, previous)
                        /\ RLe(Rat(2, 1), current.entities[i].weight)}) >= 2

\* The floor-suppression predicate as the claim states it.
SuppressionStated(current_analysis, previous_analysis) ==
    \/ current_analysis.has_preference
    \/ current_analysis.has_topic_pivot
    \/ current_analysis.pivot_detected
    \/ NewEntitiesSuppress(current_analysis.all_entities, previous_analysis.all_entities)

\* C22: on the boost path with an anaphoric reference in current, the tag is
\* anaphoric_ref_weak iff the floor-suppression predicate holds, and
\* anaphoric_ref otherwise.
C22_WeakTagIffSuppressed ==
    (Scored /\ NoShortCircuit /\ MessageAnalyses[request.current].has_anaphoric_ref)
        => /\ HasTag("anaphoric_ref_weak")
                  <=> SuppressionStated(MessageAnalyses[request.current],
                                        MessageAnalyses[request.previous])
           /\ HasTag("anaphoric_ref") <=> ~HasTag("anaphoric_ref_weak")

\* The weak tag on the boost path: the score stays below the floor times 1.5.
C22_Witness ==
    /\ Scored /\ NoShortCircuit
    /\ HasTag("anaphoric_ref_weak")
    /\ RLt(response.boosted_similarity, Rat(45, 100))

OverlapRuleStated(score, shared) ==
    /\ HasTag("entity_overlap") <=> RLt(RZero, score)
    /\ RLt(RZero, score) <=> shared # {}
    /\ HasTag("entity_overlap")
          => /\ RLt(ROne, RAdd(ROne, RMin(score, ROne)))
             /\ RLe(RAdd(ROne, RMin(score, ROne)), Rat(2, 1))
             /\ response.boosts_applied[Len(response.boosts_applied)] = "entity_overlap"
             /\ response.boosted_similarity
                    = RMin(ROne,
                           RMul(Replay(SubSeq(response.boosts_applied, 1,
                                              Len(response.boosts_applied) - 1),
                                       response.raw_similarity),
                                RAdd(ROne, RMin(score, ROne))))

\* C24: on the boost path the entity_overlap rule is applied iff the weighted
\* overlap score is > 0, which holds iff the shared lemma set is non-empty;
\* when applied, the score is multiplied by 1 + min(score, 1), a factor in
\* (1, 2].
C24_EntityOverlapRule ==
    (Scored /\ NoShortCircuit)
        => OverlapRuleStated(
               calculate_entity_overlap(MessageAnalyses[request.current].all_entities,
                                        MessageAnalyses[request.previous].all_entities)[1],
               {e.lemma : e \in Range(MessageAnalyses[request.current].all_entities.entities)}
                   \cap {e.lemma : e \in
                            Range(MessageAnalyses[request.previous].all_entities.entities)})

\* A partial overlap whose factor, strictly between 1 and 2, shows in the
\* uncapped score.
C24_Witness ==
    /\ Scored /\ NoShortCircuit
    /\ HasTag("entity_overlap")
    /\ RLt(response.analysis.entity_overlap.overlap_score, ROne)
    /\ RLt(RZero, response.raw_similarity)
    /\ RLt(response.raw_similarity, response.boosted_similarity)
    /\ RLt(response.boosted_similarity, ROne)

----------------------------------------------------------------------------
(* Properties of the message analysis                                      *)

\* What C25 says of the analysis of the message text.
CompoundPivotStated(text, analysis) ==
    /\ analysis.pivot_detected
          <=> /\ Len(text) > 1
              /\ has_anaphoric_reference(SentDoc(text[1]))
              /\ \E i \in 2..Len(text) :
                     \E e \in Range(extract_weighted_entities(SentDoc(text[i])).entities) :
                        \A f \in Range(extract_weighted_entities(SentDoc(text[1])).entities) :
                           f.lemma # e.lemma
    /\ analysis.is_compound <=> Len(text) > 1
    /\ analysis.pivot_detected => (analysis.is_compound /\ analysis.has_anaphoric_ref)

\* C25: pivot_detected is true iff the message has more than one sentence, its
\* first sentence has an anaphoric reference and sentences 2..N have an entity
\* lemma the first sentence does not have; is_compound is true iff the message
\* has more than one sentence; pivot_detected implies is_compound and
\* has_anaphoric_ref.
\* CompoundPivotStated of every message a request carries, evaluated once.
CompoundPivotStatedOf ==
    [text \in Messages \cup PreviousMessages |->
        CompoundPivotStated(text, MessageAnalyses[text])] @@ << >>

C25_CompoundPivot ==
    Analyzed =>
        /\ CompoundPivotStatedOf[request.current]
        /\ CompoundPivotStatedOf[request.previous]

\* A compound message whose pivot is detected.
C25_Witness ==
    /\ Analyzed
    /\ Len(request.current) = 2
    /\ MessageAnalyses[request.current].pivot_detected
    /\ ~has_anaphoric_reference(SentDoc(request.current[2]))

\* The candidates of the three passes for a lemma, as the claim states them.
NerCandidates(doc, lemma) ==
    {k \in 1..Len(doc.ents) :
        SpanLower(doc.tokens, doc.ents[k].first, doc.ents[k].last) = lemma /\ Len(lemma) > 2}

TokenCandidates(doc, lemma) ==
    {k \in 1..Len(doc.tokens) :
        /\ doc.tokens[k].lemma = lemma /\ Len(lemma) > 3
        /\ ~doc.tokens[k].stop
        /\ doc.tokens[k].pos \in {"PROPN", "NOUN"}}

ChunkCandidates(doc, lemma) ==
    {k \in 1..Len(doc.chunks) :
        SpanLower(doc.tokens, doc.chunks[k].first, doc.chunks[k].last) = lemma
            /\ Len(lemma) > 4}

\* Every lemma some pass can produce.
CandidateLemmas(doc) ==
    {SpanLower(doc.tokens, doc.ents[k].first, doc.ents[k].last) : k \in 1..Len(doc.ents)}
        \cup {doc.tokens[k].lemma : k \in 1..Len(doc.tokens)}
        \cup {SpanLower(doc.tokens, doc.chunks[k].first, doc.chunks[k].last) :
                 k \in 1..Len(doc.chunks)}

\* The entity e carries the kind and the weight of the earliest pass that has
\* a candidate for its lemma.
FromEarliestPass(doc, e) ==
    IF NerCandidates(doc, e.lemma) # {}
    THEN \E k \in NerCandidates(doc, e.lemma) :
            /\ e.entity_type = doc.ents[k].label
            /\ e.weight = IF doc.ents[k].label \in DOMAIN ENTITY_WEIGHTS
                          THEN ENTITY_WEIGHTS[doc.ents[k].label] ELSE ROne
    ELSE IF TokenCandidates(doc, e.lemma) # {}
    THEN \E k \in TokenCandidates(doc, e.lemma) :
            /\ e.entity_type = doc.tokens[k].pos
            /\ e.weight = IF doc.tokens[k].pos = "PROPN" THEN Rat(2, 1) ELSE ROne
    ELSE \E k \in ChunkCandidates(doc, e.lemma) :
            /\ e.entity_type = "NOUN_CHUNK"
            /\ e.weight = IF \E i \in doc.chunks[k].first..doc.chunks[k].last :
                                 doc.tokens[i].pos = "PROPN"
                          THEN Rat(2, 1) ELSE ROne

\* What C26 says of the analysis of the document doc.
FirstWriterWins(doc, analysis) ==
    /\ \A i, j \in 1..Len(analysis.entities) :
           analysis.entities[i].lemma = analysis.entities[j].lemma => i = j
    /\ \A i \in 1..Len(analysis.entities) : FromEarliestPass(doc, analysis.entities[i])
    /\ \A lemma \in CandidateLemmas(doc) :
           (NerCandidates(doc, lemma) \cup TokenCandidates(doc, lemma)
                \cup ChunkCandidates(doc, lemma)) # {}
               => \E i \in 1..Len(analysis.entities) : analysis.entities[i].lemma = lemma
    /\ analysis.total_weight = WeightOf(analysis.entities, CandidateLemmas(doc))

\* C26: in extract_weighted_entities a lemma produced by more than one of the
\* three passes (NER span of length > 2, noun or proper-noun token with lemma
\* length > 3 that is no stop word, noun chunk of length > 4) is recorded once,
\* with the kind and weight of the earliest pass that accepted it; later
\* candidates change neither the entity list nor total_weight.
\* FirstWriterWins of every current message against its document, evaluated
\* once.
FirstWriterWinsOf ==
    [text \in Messages |->
        FirstWriterWins(nlp_full(text), MessageAnalyses[text].all_entities)] @@ << >>

C26_FirstWriterWins ==
    Analyzed => FirstWriterWinsOf[request.current]

\* A lemma all three passes produce, recorded with the NER label.
C26_Witness ==
    /\ Analyzed
    /\ \E e \in Range(MessageAnalyses[request.current].all_entities.entities) :
           /\ NerCandidates(nlp_full(request.current), e.lemma) # {}
           /\ TokenCandidates(nlp_full(request.current), e.lemma) # {}
           /\ ChunkCandidates(nlp_full(request.current), e.lemma) # {}
           /\ e.entity_type = "GPE"

----------------------------------------------------------------------------
(* Properties of preprocess                                                *)

\* The positions of the cleaned words whose lemma survives the filter.
Surviving(words) ==
    {i \in 1..Len(words) :
        LemmaOf(words[i]) \notin REMOVE_WORDS /\ Len(LemmaOf(words[i])) > 1}

\* The positions of the cleaned words the fallback keeps.
FallbackKept(words) ==
    {i \in 1..Len(words) :
        /\ words[i] \notin {"um", "uh", "like", "just", "really", "actually", "basically"}
        /\ Len(words[i]) > 1}

\* out is the sequence [item(i)] over the positions of kept, in their order.
IsSelection(out, kept, items) ==
    /\ Len(out) = Cardinality(kept)
    /\ \A i \in kept : out[Cardinality({j \in kept : j <= i})] = items[i]

\* What C27 says of the list of words preprocess joins for a non-blank text
\* with the cleaned words words.
PreprocessStated(out, words) ==
    IF Cardinality(Surviving(words)) >= 2
    THEN IsSelection(out, Surviving(words), [i \in 1..Len(words) |-> LemmaOf(words[i])])
    ELSE IsSelection(out, FallbackKept(words), words)

\* C27: for a non-blank input preprocess returns the space-joined lemmas of
\* the tokens whose lemma is not in REMOVE_WORDS and longer than 1, in token
\* order, when at least 2 survive, and otherwise the words of the cleaned text
\* minus the basic filter and minus words of length <= 1; for an empty input
\* it returns "" and the analyzer is not called.
C27_PreprocessStated ==
    (request.endpoint = "/preprocess" /\ response # NoResponse) =>
        /\ \A i \in 1..Len(RequestTexts(request.text)) :
               IF RequestTexts(request.text)[i] = <<>>
               THEN response.preprocessed[i] = ""
               ELSE \E out \in {PreprocessedWords(RequestTexts(request.text)[i])} :
                       /\ response.preprocessed[i] = JoinWords(out)
                       /\ PreprocessStated(out, CleanedWords(RequestTexts(request.text)[i]))
        /\ Len(nlp_calls)
               = Cardinality({i \in 1..Len(RequestTexts(request.text)) :
                                 RequestTexts(request.text)[i] # <<>>})
        /\ \A k \in 1..Len(nlp_calls) : nlp_calls[k] # ""

\* A list of an empty text and of a text that takes the fallback: one
\* analyzer call for two texts.
C27_Witness ==
    /\ request.endpoint = "/preprocess" /\ response # NoResponse
    /\ Len(RequestTexts(request.text)) = 2
    /\ RequestTexts(request.text)[1] = <<>>
    /\ RequestTexts(request.text)[2] # <<>>
    /\ Cardinality(Surviving(CleanedWords(RequestTexts(request.text)[2]))) < 2
    /\ response.preprocessed[2] # ""
    /\ Len(nlp_calls) = 1

----------------------------------------------------------------------------
(* Properties of the tags of one response                                  *)

\* C28: no /analyze-drift response has both "qa_pair" and "question" in
\* boosts_applied, and none has both "ultra_short_response" and "question".
C28_QuestionTagExcludesAnswerTags ==
    Scored =>
        /\ ~(HasTag("qa_pair") /\ HasTag("question"))
        /\ ~(HasTag("ultra_short_response") /\ HasTag("question"))

\* A question of at most 2 words after a question: short enough for both
\* answer rules, and tagged question only.
C28_Witness ==
    /\ Scored /\ NoShortCircuit
    /\ MessageAnalyses[request.previous].is_question
    /\ MessageAnalyses[request.current].is_question
    /\ Len(Words(request.current)) <= 2
    /\ ~HasTag("response_particle")
    /\ HasTag("question")

\* C29: in every /analyze-drift response whose boosts_applied has
\* "anaphoric_ref_weak", the current message has pivot_detected, or new-entity
\* weight >= 4.0, or at least 2 new entities of weight >= 2.0; it has neither
\* a preference nor a topic pivot.
C29_WeakTagCauses ==
    (Scored /\ HasTag("anaphoric_ref_weak"))
        => /\ ~MessageAnalyses[request.current].has_preference
           /\ ~MessageAnalyses[request.current].has_topic_pivot
           /\ \/ MessageAnalyses[request.current].pivot_detected
              \/ NewEntitiesSuppress(MessageAnalyses[request.current].all_entities,
                                     MessageAnalyses[request.previous].all_entities)

\* The weak tag caused by the new entities alone, in a message of one sentence.
C29_Witness ==
    /\ Scored /\ HasTag("anaphoric_ref_weak")
    /\ ~MessageAnalyses[request.current].pivot_detected
    /\ Len(request.current) = 1

\* The first word of current (lowercased, stripped of . , ! ?) is "anyway".
FirstWordIsAnyway ==
    /\ Words(request.current) # <<>>
    /\ Words(request.current)[1] = "anyway"

\* C30 as stated: a current message whose first word is "anyway" never gets
\* response_particle; the request short-circuits with boosted_similarity =
\* raw_similarity and empty boosts_applied.
C30_AnywayShortCircuitsEmpty ==
    (Scored /\ FirstWordIsAnyway)
        => /\ ~HasTag("response_particle")
           /\ response.boosted_similarity = response.raw_similarity
           /\ response.boosts_applied = <<>>

\* C30, amended: a current message whose first word is "anyway" never gets
\* response_particle; the request short-circuits with boosted_similarity =
\* raw_similarity, and boosts_applied is empty unless the message also has a
\* preference, in which case it is ["preference_detected"].
C30_AnywayShortCircuits ==
    (Scored /\ FirstWordIsAnyway)
        => /\ ~HasTag("response_particle")
           /\ response.boosted_similarity = response.raw_similarity
           /\ response.boosts_applied
                  = IF MessageAnalyses[request.current].has_preference
                    THEN <<"preference_detected">> ELSE <<>>

\* "Anyway." alone, below the particle floor: one word, a response particle,
\* and no boost.
C30_Witness ==
    /\ Scored /\ FirstWordIsAnyway
    /\ Len(Words(request.current)) <= 4
    /\ RLt(response.raw_similarity, Rat(55, 100))
    /\ response.boosted_similarity = response.raw_similarity
    /\ response.boosts_applied = <<>>

====
